---- MODULE Spec2Model ----
(***************************************************************************)
(* A model of the trialwatch ingestion pipeline:                           *)
(*   - ctgov.get_trials, the cursor-paginated walker (src/ctgov.py),       *)
(*   - the tenacity-wrapped fetchers ctgov._get and ctis._fetch_page,      *)
(*   - ctis_harvester.run, the browser export harvester.                   *)
(* Each component has its own specification (SpecWalk, SpecFetch,          *)
(* SpecHarvest); the variables of the other components stay idle.          *)
(***************************************************************************)
EXTENDS Integers, Sequences, FiniteSets, TLC

VARIABLES
    \* ---- ctgov.get_trials (one generator instance) ----
    source,      \* the responses the source gives to successive page requests
    condition,   \* the condition argument
    page_size,   \* the page_size argument
    params,      \* local params: the dict handed to _get, as a set of
                 \* <<key, value>> pairs
    sent,        \* the params each request issued carried, in order
    phase,       \* the phase argument
    since,       \* the since argument
    dt_since,    \* local dt_since of get_trials
    w_pc,        \* position of the generator
    w_data,      \* the response held in local "data" (its index in source)
    w_idx,       \* index of the next study of data["studies"] to process
    page_token,  \* local page_token
    requests,    \* the pageToken (or NoToken) carried by each request issued
    yielded,     \* the trials handed to the consumer so far, in order
    dropped,     \* positions <<page, index>> skipped by a filter
    events,      \* the order of page requests and throttle sleeps
    w_error      \* the exception that ended the generator ("" when none)

    \* ---- a tenacity-wrapped call (ctgov._get, ctis._fetch_page, or ----
    \* ---- ctis_harvester.run seen as one retried call)              ----
VARIABLES
    f_site,      \* which function is called: "ctgov", "ctis" or "harvester"
    f_pc,        \* "call", "wait", "returned" or "raised"
    f_attempt,   \* tenacity's attempt_number
    f_outcomes,  \* what each attempt made so far met
    f_waits,     \* the seconds slept after each failed attempt
    f_result     \* what the caller received

    \* ---- ctis_harvester.run (calls made one after the other) ----
VARIABLES
    h_clock,     \* the wall clock, in ticks
    h_files,     \* the days d whose artifact /tmp/ctis_<d>.csv exists
    h_s3,        \* the days whose key raw/ctis_<d>.csv is in the bucket
    h_puts,      \* the uploads made so far
    h_pc,        \* position of run(); "idle" between two calls
    h_attempt,   \* tenacity's attempt_number of the current call
    h_out,       \* out_path of the current attempt (its day)
    h_existed,   \* out_path.exists() as the current attempt found it
    h_browser,   \* the current attempt's session: none, open, closed, stopped
    h_navigated, \* page.goto was called in the current attempt
    h_consent,   \* the page's cookie-consent control: none (no page),
                 \* absent, present, dismissed
    h_typed,     \* the day typed into the "Last updated" filter (-1: none)
    h_first,     \* out_path and exists() of the call's first attempt
    h_launches,  \* browsers launched in the current call
    h_hist,      \* what happened so far: calls ended, artifacts deleted
    h_steps,     \* the steps the current attempt has taken, in order
    h_seen,      \* the URL of the last request handed to handle_request
    h_dl,        \* download_url of the current attempt
    h_dl2,       \* download_url of a second attempt that takes the same
                 \* steps and sees other requests
    h_moved      \* the files the current call has moved to an out_path

    \* ---- ctgov.save_trials_to_db (calls made one after the other) ----
VARIABLES
    s_db,        \* clinical_trials as committed: a set of rows
    s_db0,       \* clinical_trials when the current call began
    s_tx,        \* clinical_trials as the connection's transaction sees it
    s_calls,     \* calls made so far; datetime.now() advances with it
    s_trials,    \* the argument of the current call
    s_pc,        \* position of the call; "done" once it has ended
    s_conn,      \* client.conn: none, open, dropped (lost), closed
    s_opens,     \* connections the current call has opened
    s_live,      \* connections opened by any call and not closed yet
    s_path,      \* the path the call is on: none, batch, fallback
    s_i,         \* the fallback loop's position in trials
    s_saved,     \* saved_count
    s_ok,        \* positions whose fallback statement and commit succeeded
    s_touched,   \* nct_ids whose row the call inserted or overwrote
    s_result     \* how the call ended: none, return n, raise

    \* ---- ctgov.get_trials_and_save (one run) ----
VARIABLES
    o_max,       \* max_trials
    o_bs,        \* batch_size
    o_src,       \* what get_trials will do: yield len records, then end or
                 \* raise
    o_pc,        \* position of the run
    o_batch,     \* batch: the buffered records (by their number in the walk)
    o_count,     \* count: records taken from the walker
    o_total,     \* total_saved
    o_flushes,   \* the calls of save_trials_to_db made, in order
    o_result     \* how the run ended (none, return n, raise), and what the
                 \* except clause caught (none, walker, writer)

    \* ---- the record parsers, applied to one raw entry ----
VARIABLES
    p_raw,       \* the raw entry of the source
    p_pc,        \* "ready" before the entry is parsed, "done" after
    p_out        \* what the parser gave: nothing yet, a record, or it raised

    \* ---- lambda_handler.lambda_handler (invocations one after the other) ----
VARIABLES
    l_pc,        \* "idle" between invocations, "running" inside one
    l_runs,      \* calls of run() made by the current invocation
    l_resp       \* the responses returned so far, one per invocation

wvars == <<source, condition, page_size, params, sent, phase, since,
           dt_since, w_pc, w_data, w_idx, page_token, requests, yielded,
           dropped, events, w_error>>

fvars == <<f_site, f_pc, f_attempt, f_outcomes, f_waits, f_result>>

svars == <<s_db, s_db0, s_tx, s_calls, s_trials, s_pc, s_conn, s_path, s_i,
           s_saved, s_ok, s_touched, s_result,
           s_opens, s_live>>

ovars == <<o_max, o_bs, o_src, o_pc, o_batch, o_count, o_total, o_flushes,
           o_result>>

pvars == <<p_raw, p_pc, p_out>>

lvars == <<l_pc, l_runs, l_resp>>

hvars == <<h_clock, h_files, h_s3, h_puts, h_pc, h_attempt, h_out, h_existed,
           h_browser, h_navigated, h_consent, h_typed, h_first, h_launches,
           h_hist, h_steps, h_seen, h_dl, h_dl2, h_moved>>

----------------------------------------------------------------------------
(* Bounds of the model *)

MaxPages == 2

MaxPerPage == 2

\* harvester calls made in a run of the model
MaxCalls == 2

\* clock ticks in a calendar day, and the last tick of the model's clock
TicksPerDay == 2

MaxClock == 5

\* records in one argument of save_trials_to_db, and calls made
MaxBatch == 2

MaxSaves == 2

\* get_trials_and_save: the largest max_trials and batch_size tried, and the
\* most records a walk yields
MaxTrials == 3

MaxBatchSize == 2

MaxYield == 4

----------------------------------------------------------------------------
(* Python values *)

\* A Python str holding a label: `lead` spaces, a core without outer
\* whitespace, `trail` spaces.
PyStr(lead, core, trail) == [lead |-> lead, core |-> core, trail |-> trail]

S(core) == PyStr(0, core, 0)

\* str.strip()
Strip(s) == PyStr(0, s.core, 0)

\* An optional str argument: None, or a str.
PyNone == [kind |-> "none", s |-> S("")]

PySome(s) == [kind |-> "str", s |-> s]

\* Truth value of an Optional[str]: None and "" are false.
Truthy(v) == v.kind = "str" /\ v.s # S("")

\* A date string as the source sends it, or a since argument:
\*   none  - Python None (the field is missing)
\*   empty - ""
\*   text  - a non-empty string that is no ISO-8601 date
\*   iso   - an ISO-8601 date of calendar day `day`, with UTC-offset suffix tz
DateNone == [kind |-> "none", day |-> 0, tz |-> ""]

DateEmpty == [kind |-> "empty", day |-> 0, tz |-> ""]

DateText == [kind |-> "text", day |-> 0, tz |-> ""]

DateIso(day, tz) == [kind |-> "iso", day |-> day, tz |-> tz]

\* A datetime value, or None
NoDt == [some |-> FALSE, day |-> 0, aware |-> FALSE]

Dt(day, aware) == [some |-> TRUE, day |-> day, aware |-> aware]

\* datetime.fromisoformat: does the string parse (else ValueError) ...
IsoParses(v) == v.kind = "iso" /\ v.tz # "Z"

\* ... and the datetime it gives: aware exactly when an offset is written
FromIso(v) == Dt(v.day, v.tz # "")

----------------------------------------------------------------------------
(* The unified record of ctgov.py *)

\* Trial._parse_dt: a str has a trailing "Z" replaced by "+00:00" and is then
\* parsed; a ValueError degrades to None; a non-str (None) passes through.
ParseDt(v) ==
    IF v.kind = "none" THEN NoDt
    ELSE LET v2 == IF v.kind = "iso" /\ v.tz = "Z"
                   THEN [v EXCEPT !.tz = "+00:00"] ELSE v
         IN  IF IsoParses(v2) THEN FromIso(v2) ELSE NoDt

\* A study payload of the source: `valid` says that the required sections
\* (protocolSection, identificationModule.nctId, statusModule.overallStatus)
\* are there; `design` that designModule is there.
Payload(id, valid, design, phases, lcd) ==
    [nctId |-> id, valid |-> valid, design |-> design, phases |-> phases,
     lcd |-> lcd]

\* ApiStudy.model_validate raises ValidationError on a payload that lacks a
\* required section.
ValidatesNeedsDesign(raw) == raw.valid /\ raw.design

Validates(raw) == raw.valid

\* Trial.from_api
FromApi(raw) ==
    [id           |-> raw.nctId,
     phases       |-> IF raw.design THEN raw.phases ELSE <<>>,
     last_changed |-> ParseDt(raw.lcd),
     raw          |-> raw]

----------------------------------------------------------------------------
(* The local filters of get_trials *)

\* line 175: phase and phase not in [p.strip() for p in trial.phases]
PhaseRejectsUnguarded(ph, trial) ==
    ~ \E i \in 1..Len(trial.phases) : Strip(trial.phases[i]) = ph.s

PhaseRejects(ph, trial) ==
    /\ Truthy(ph)
    /\ ~ \E i \in 1..Len(trial.phases) : Strip(trial.phases[i]) = ph.s

\* line 177: the comparison trial.last_changed < dt_since is evaluated when
\* both are datetimes; Python raises TypeError when one is offset-aware and
\* the other offset-naive.
CompareRaises(dts, lc) == dts.some /\ lc.some /\ dts.aware # lc.aware

\* line 177: dt_since and trial.last_changed and trial.last_changed < dt_since
TooOldAbsentToo(dts, lc) == dts.some /\ (~lc.some \/ lc.day < dts.day)

TooOld(dts, lc) == dts.some /\ lc.some /\ lc.day < dts.day

----------------------------------------------------------------------------
(* The source *)

\* data.get("nextPageToken") when the field is missing
NoToken == "<absent>"

\* line 183: not page_token
NoCursorOnlyAbsent(tok) == tok = NoToken

NoCursor(tok) == tok = NoToken \/ tok = ""

Cursor(i) == <<"X1", "X2", "X3", "X4", "X5">>[i]

\* The study payloads the sources are built from.  The first three are the
\* records of the phase scenario; the dates are day 1 (before the cutoff),
\* day 2 (the cutoff) and day 3 (after it).
Catalogue ==
    << Payload("NCT1", TRUE, TRUE, <<S("Phase 1")>>, DateNone),
       Payload("NCT2", TRUE, TRUE, <<S("Phase 2"), S("Phase 3")>>,
               DateIso(1, "")),
       Payload("NCT3", TRUE, FALSE, <<>>, DateText),
       Payload("NCT4", TRUE, TRUE, <<PyStr(1, "2", 1)>>, DateIso(2, "")),
       Payload("NCT5", TRUE, TRUE, <<PyStr(0, "Phase 2", 1)>>,
               DateIso(1, "Z")),
       Payload("NCT6", TRUE, TRUE, <<S("2"), S("Phase 2")>>, DateIso(3, "")),
       Payload("", FALSE, FALSE, <<>>, DateNone) >>

\* The phase arguments and the since arguments tried
PhaseArgs == {PyNone, PySome(S("")), PySome(S("2")), PySome(S("Phase 2"))}

SinceArgs == {DateNone, DateEmpty, DateText, DateIso(2, ""),
              DateIso(2, "+00:00")}

\* The strides in which a source walks the catalogue (each coprime to its
\* length, so that every payload can follow every other one)
Strides == {1, 3}

RECURSIVE SumTo(_, _)
SumTo(lens, n) == IF n = 0 THEN 0 ELSE lens[n] + SumTo(lens, n - 1)

\* A source of Len(lens) pages, page i holding lens[i] payloads taken from the
\* catalogue in rotation from offset off in strides of step; page f is the
\* first response
\* without a cursor (its token is `form`: missing or empty), the last page
\* has none either, every other page carries a cursor.
MakeSource(lens, off, step, f, form) ==
    [i \in 1..Len(lens) |->
        [studies |-> [j \in 1..lens[i] |->
                        Catalogue[((off + step * (SumTo(lens, i - 1) + j - 1))
                                   % Len(Catalogue)) + 1]],
         token   |-> IF i = f THEN form
                     ELSE IF i = Len(lens) THEN NoToken
                     ELSE Cursor(i)]]

\* The response to the n-th request: a mock source answers from its list; a
\* request past the list gets an empty page without a cursor.
Response(n) ==
    IF n <= Len(source) THEN source[n]
    ELSE [studies |-> <<>>, token |-> NoToken]

----------------------------------------------------------------------------
(* ctgov.get_trials *)

\* the condition and page_size arguments tried
CallArgs == {<<"asthma", 50>>, <<"copd", 20>>}

\* lines 152-162: the params every call starts from: the condition, the page
\* size as a str, the field projection and the format
Fields == <<"NCTId", "BriefTitle", "OfficialTitle", "OverallStatus", "Phase",
           "Condition", "LastUpdatePostDate">>

BuildParams(cond, size) ==
    {<<"query.cond", cond>>, <<"pageSize", ToString(size)>>,
     <<"fields", Fields>>, <<"format", "json">>}

SetItem(dict, key, value) ==
    {kv \in dict : kv[1] # key} \cup {<<key, value>>}

WithCursorAlways(dict, tok) == SetItem(dict, "pageToken", tok)

\* lines 168-169: if page_token: params["pageToken"] = page_token
WithCursor(dict, tok) ==
    IF NoCursor(tok) THEN dict ELSE SetItem(dict, "pageToken", tok)

WInit ==
    /\ \E np \in 1..MaxPages :
         \E lens \in [1..np -> 0..MaxPerPage] :
           \E off \in 0..(Len(Catalogue) - 1), step \in Strides,
              f \in 1..np, form \in {NoToken, ""} :
                source = MakeSource(lens, off, step, f, form)
    /\ \E a \in CallArgs : condition = a[1] /\ page_size = a[2]
    /\ params = {}
    /\ sent = <<>>
    /\ phase \in PhaseArgs
    /\ since \in SinceArgs
    /\ dt_since = NoDt
    /\ w_pc = "start"
    /\ w_data = 0
    /\ w_idx = 0
    /\ page_token = NoToken
    /\ requests = <<>>
    /\ yielded = <<>>
    /\ dropped = {}
    /\ events = <<>>
    /\ w_error = ""

\* since is true as a Python value: a non-empty str
SinceGiven == since.kind \in {"text", "iso"}

\* lines 152-165: the first next() builds params, sets page_token = None and
\* parses since; fromisoformat raises ValueError on a malformed since.
WStart ==
    /\ w_pc = "start"
    /\ IF SinceGiven /\ ~IsoParses(since)
       THEN /\ w_pc' = "raised"
            /\ w_error' = "ValueError"
            /\ UNCHANGED dt_since
       ELSE /\ w_pc' = "fetch"
            /\ dt_since' = IF SinceGiven THEN FromIso(since) ELSE NoDt
            /\ UNCHANGED w_error
    /\ params' = BuildParams(condition, page_size)
    /\ UNCHANGED <<condition, page_size, sent,
                   source, phase, since, w_data, w_idx, page_token, requests,
                   yielded, dropped, events>>

\* lines 168-171: the request carries pageToken when page_token is true;
\* _get returns the response body ...
WFetch ==
    /\ w_pc = "fetch"
    /\ params' = WithCursor(params, page_token)
    /\ sent' = Append(sent, params')
    /\ requests' = Append(requests,
                          IF NoCursor(page_token) THEN NoToken ELSE page_token)
    /\ events' = Append(events, "get")
    /\ w_data' = Len(requests) + 1
    /\ w_idx' = 1
    /\ w_pc' = "scan"
    /\ UNCHANGED <<condition, page_size,
                   source, phase, since, dt_since, page_token, yielded,
                   dropped, w_error>>

\* ... or raises once its attempts are used up (tenacity's RetryError).
WFetchFails ==
    /\ w_pc = "fetch"
    /\ params' = WithCursor(params, page_token)
    /\ sent' = Append(sent, params')
    /\ requests' = Append(requests,
                          IF NoCursor(page_token) THEN NoToken ELSE page_token)
    /\ events' = Append(events, "get")
    /\ w_pc' = "raised"
    /\ w_error' = "RetryError"
    /\ UNCHANGED <<condition, page_size,
                   source, phase, since, dt_since, w_data, w_idx, page_token,
                   yielded, dropped>>

Studies == IF w_data = 0 THEN <<>> ELSE Response(w_data).studies

\* lines 172-180, one study of the page: validate and map it, apply the phase
\* filter, then the since filter, then yield.
WScan ==
    /\ w_pc = "scan"
    /\ w_idx <= Len(Studies)
    /\ LET raw   == Studies[w_idx]
           trial == FromApi(raw)
           pos   == <<w_data, w_idx>>
       IN  IF ~Validates(raw)
           THEN /\ w_pc' = "raised"
                /\ w_error' = "ValidationError"
                /\ UNCHANGED <<w_idx, yielded, dropped>>
           ELSE IF PhaseRejects(phase, trial)
           THEN /\ dropped' = dropped \cup {[pos |-> pos, by |-> "phase"]}
                /\ w_idx' = w_idx + 1
                /\ UNCHANGED <<w_pc, w_error, yielded>>
           ELSE IF CompareRaises(dt_since, trial.last_changed)
           THEN /\ w_pc' = "raised"
                /\ w_error' = "TypeError"
                /\ UNCHANGED <<w_idx, yielded, dropped>>
           ELSE IF TooOld(dt_since, trial.last_changed)
           THEN /\ dropped' = dropped \cup {[pos |-> pos, by |-> "since"]}
                /\ w_idx' = w_idx + 1
                /\ UNCHANGED <<w_pc, w_error, yielded>>
           ELSE /\ yielded' = Append(yielded, [pos |-> pos, trial |-> trial])
                /\ w_idx' = w_idx + 1
                /\ UNCHANGED <<w_pc, w_error, dropped>>
    /\ UNCHANGED <<condition, page_size, params, sent,
                   source, phase, since, dt_since, w_data, page_token,
                   requests, events>>

WEndPageSleepsFirst ==
    /\ w_pc = "scan"
    /\ w_idx > Len(Studies)
    /\ page_token' = Response(w_data).token
    /\ events' = Append(events, "sleep")
    /\ w_pc' = IF NoCursor(page_token') THEN "done" ELSE "fetch"
    /\ UNCHANGED <<condition, page_size, params, sent,
                   source, phase, since, dt_since, w_data, w_idx, requests,
                   yielded, dropped, w_error>>

\* lines 182-184: after the last study of the page, take the cursor; without
\* one the generator ends.
WEndPage ==
    /\ w_pc = "scan"
    /\ w_idx > Len(Studies)
    /\ page_token' = Response(w_data).token
    /\ w_pc' = IF NoCursor(page_token') THEN "done" ELSE "sleep"
    /\ UNCHANGED <<condition, page_size, params, sent,
                   source, phase, since, dt_since, w_data, w_idx, requests,
                   yielded, dropped, events, w_error>>

\* line 185: time.sleep(_SLEEP), then the next turn of the loop
WSleep ==
    /\ w_pc = "sleep"
    /\ events' = Append(events, "sleep")
    /\ w_pc' = "fetch"
    /\ UNCHANGED <<condition, page_size, params, sent,
                   source, phase, since, dt_since, w_data, w_idx, page_token,
                   requests, yielded, dropped, w_error>>

----------------------------------------------------------------------------
(* The retrying fetchers: ctgov._get and ctis._fetch_page under tenacity *)

\* the functions under @retry: ctgov._get, ctis._fetch_page and
\* ctis_harvester.run
Sites == {"ctgov", "ctis", "harvester"}

\* The response bodies a successful attempt may carry
Bodies == {"body1", "body2"}

\* What one attempt can meet: a 2xx response with a JSON body ("ok"), a 2xx
\* response whose body is no JSON (resp.json() raises), a transport error
\* raised by requests.get (timeout, connection reset), or a 4xx, 429 or 5xx
\* status, on which raise_for_status raises HTTPError.
Failures == {"badjson", "transport", "http4xx", "http429", "http5xx"}

\* stop_after_attempt(n): ctgov.py line 128, ctis.py line 45,
\* ctis_harvester.py line 39
AttemptLimitOneMore(site) == IF site = "ctgov" THEN 6 ELSE 4

AttemptLimit(site) == IF site = "ctgov" THEN 5 ELSE 3

\* The decorators give no retry= argument: tenacity then retries on every
\* exception the attempt raises.
RetryableUnless4xx(failure) == failure # "http4xx"

Retryable(failure) == TRUE

RECURSIVE Pow2(_)
Pow2(n) == IF n = 0 THEN 1 ELSE 2 * Pow2(n - 1)

Min(a, b) == IF a <= b THEN a ELSE b

Max(a, b) == IF a >= b THEN a ELSE b

\* wait_exponential(multiplier, min, max) after attempt n:
\* max(min, min(multiplier * 2^(n-1), max))
WaitExponential(mult, lo, hi, n) == Max(lo, Min(mult * Pow2(n - 1), hi))

\* the wait= of each decorator
WaitAfter(site, n) ==
    IF site = "ctgov" THEN WaitExponential(1, 2, 10, n)
    ELSE IF site = "harvester" THEN WaitExponential(2, 4, 30, n)
    ELSE WaitExponential(1, 1, 10, n)

FInit ==
    /\ f_site \in Sites
    /\ f_pc = "call"
    /\ f_attempt = 1
    /\ f_outcomes = <<>>
    /\ f_waits = <<>>
    /\ f_result = [kind |-> "none", value |-> ""]

\* An attempt that succeeds: the function returns resp.json() and tenacity
\* hands it to the caller.
FAttemptOk ==
    /\ f_pc = "call"
    /\ \E b \in Bodies :
          /\ f_outcomes' = Append(f_outcomes, [kind |-> "ok", body |-> b])
          /\ f_result' = [kind |-> "return", value |-> b]
    /\ f_pc' = "returned"
    /\ UNCHANGED <<f_site, f_attempt, f_waits>>

\* An attempt that raises: tenacity re-raises an exception it does not retry
\* on, raises RetryError once stop_after_attempt is reached, and otherwise
\* sleeps the wait and goes on to the next attempt.
FAttemptFails ==
    /\ f_pc = "call"
    /\ \E x \in Failures :
          /\ f_outcomes' = Append(f_outcomes, [kind |-> x, body |-> ""])
          /\ IF ~Retryable(x)
             THEN /\ f_pc' = "raised"
                  /\ f_result' = [kind |-> "raise", value |-> x]
                  /\ UNCHANGED f_waits
             ELSE IF f_attempt >= AttemptLimit(f_site)
             THEN /\ f_pc' = "raised"
                  /\ f_result' = [kind |-> "raise", value |-> "RetryError"]
                  /\ UNCHANGED f_waits
             ELSE /\ f_pc' = "wait"
                  /\ f_waits' = Append(f_waits, WaitAfter(f_site, f_attempt))
                  /\ UNCHANGED f_result
    /\ UNCHANGED <<f_site, f_attempt>>

\* The sleep is over: attempt_number += 1 and the function is called again
FRetry ==
    /\ f_pc = "wait"
    /\ f_attempt' = f_attempt + 1
    /\ f_pc' = "call"
    /\ UNCHANGED <<f_site, f_outcomes, f_waits, f_result>>

----------------------------------------------------------------------------
(* ctis_harvester.run *)

\* the calendar day of a clock reading
Day(t) == t \div TicksPerDay

\* today_path(): the artifact path of pendulum.yesterday(), named by its day
TodayPath(t) == Day(t) - 1

\* An artifact reference: the local path of day d, or a presigned URL of the
\* key of day d signed at clock reading t
LocalPath(d) == [form |-> "path", name |-> d, stamp |-> 0]

Url(d, t) == [form |-> "url", name |-> d, stamp |-> t]

NoRef == [form |-> "none", name |-> 0, stamp |-> 0]

\* upload_to_s3, line 27: key = f"raw/{local_path.name}", the key of the
\* path's day
S3KeyOfToday(path) == path + 1

S3Key(path) == path

\* download_url = None (line 52)
NoUrl == <<>>

RelocatedFromListener(dl) ==
    IF dl # NoUrl THEN [via |-> "download_url", url |-> dl]
    ELSE [via |-> "download.path()", url |-> NoUrl]

\* lines 72-74: the file moved to out_path is the one of the download event,
\* csv_path = await download.path(); download_url is not read
Relocated(dl) == [via |-> "download.path()", url |-> NoUrl]

HFresh == [out |-> 0, existed |-> FALSE]

HInit ==
    /\ h_clock = TicksPerDay
    /\ h_files \in SUBSET {TodayPath(TicksPerDay)}
    /\ h_s3 = {}
    /\ h_puts = 0
    /\ h_pc = "idle"
    /\ h_attempt = 0
    /\ h_out = 0
    /\ h_existed = FALSE
    /\ h_browser = "none"
    /\ h_navigated = FALSE
    /\ h_consent = "none"
    /\ h_typed = -1
    /\ h_first = HFresh
    /\ h_launches = 0
    /\ h_hist = <<>>
    /\ h_steps = <<>>
    /\ h_seen = NoUrl
    /\ h_dl = NoUrl
    /\ h_dl2 = NoUrl
    /\ h_moved = <<>>

CallsEnded ==
    Cardinality({k \in 1..Len(h_hist) : h_hist[k].kind \in {"return", "raise"}})

\* the invocation trigger calls run(): tenacity starts attempt 1
HCall ==
    /\ h_pc = "idle"
    /\ h_steps' = <<>>
    /\ h_seen' = NoUrl
    /\ h_dl' = NoUrl
    /\ h_dl2' = NoUrl
    /\ h_moved' = <<>>
    /\ CallsEnded < MaxCalls
    /\ h_pc' = "check"
    /\ h_attempt' = 1
    /\ h_browser' = "none"
    /\ h_navigated' = FALSE
    /\ h_typed' = -1
    /\ h_existed' = FALSE
    /\ h_launches' = 0
    /\ h_first' = HFresh
    /\ h_consent' = "none"
    /\ UNCHANGED <<h_clock, h_files, h_s3, h_puts, h_out, h_hist>>

HCheckAlwaysLaunches ==
    /\ h_pc = "check"
    /\ h_steps' = h_steps \o <<"check">>
    /\ UNCHANGED <<h_seen, h_dl, h_dl2, h_moved>>
    /\ h_out' = TodayPath(h_clock)
    /\ h_existed' = (h_out' \in h_files)
    /\ h_first' = IF h_attempt = 1
                  THEN [out |-> h_out', existed |-> h_existed'] ELSE h_first
    /\ h_pc' = "launch"
    /\ UNCHANGED <<h_consent,
                   h_clock, h_files, h_s3, h_puts, h_attempt, h_browser,
                   h_navigated, h_typed, h_launches, h_hist>>

\* lines 41-44: out_path = today_path(); an existing artifact goes straight
\* to upload_to_s3
HCheck ==
    /\ h_pc = "check"
    /\ h_steps' = h_steps \o <<"check">>
    /\ UNCHANGED <<h_seen, h_dl, h_dl2, h_moved>>
    /\ h_out' = TodayPath(h_clock)
    /\ h_existed' = (h_out' \in h_files)
    /\ h_first' = IF h_attempt = 1
                  THEN [out |-> h_out', existed |-> h_existed'] ELSE h_first
    /\ h_pc' = IF h_existed' THEN "publish" ELSE "launch"
    /\ UNCHANGED <<h_consent,
                   h_clock, h_files, h_s3, h_puts, h_attempt, h_browser,
                   h_navigated, h_typed, h_launches, h_hist>>

\* line 39, stop=stop_after_attempt(3): no attempt follows the third
StopAfterAttemptOneMore(n) == n >= 4

StopAfterAttempt(n) == n >= 3

AttemptFailsKeepsSession ==
    /\ h_browser' = h_browser
    /\ IF StopAfterAttempt(h_attempt)
       THEN /\ h_pc' = "idle"
            /\ h_hist' = Append(h_hist, [kind |-> "raise", day |-> h_out,
                                         ref |-> NoRef])
       ELSE /\ h_pc' = "wait"
            /\ UNCHANGED h_hist

\* An exception leaves the attempt. browser.close() (line 75) is not reached,
\* but the exception leaves through "async with async_playwright()" (line
\* 46), whose exit stops the Playwright driver and with it the browser it
\* launched: an open session is stopped. tenacity raises RetryError after
\* attempt 3 (line 39), else it sleeps before the next attempt.
AttemptFails ==
    /\ h_browser' = IF h_browser = "open" THEN "stopped" ELSE h_browser
    /\ IF StopAfterAttempt(h_attempt)
       THEN /\ h_pc' = "idle"
            /\ h_hist' = Append(h_hist, [kind |-> "raise", day |-> h_out,
                                         ref |-> NoRef])
       ELSE /\ h_pc' = "wait"
            /\ UNCHANGED h_hist

\* A request URL, as the pieces handle_request tells apart: the text
\* "download", the extension ".csv", and any other text ("x")
Urls ==
    { <<"x", "download", ".csv">>, <<"download", "x", ".csv">>,
      <<"download", ".csv", "x">>, <<"x", ".csv">>, <<"download", "x">> }

\* line 56: "download" in url
HasDownload(url) == \E i \in 1..Len(url) : url[i] = "download"

\* line 56: url.endswith(".csv")
EndsWithCsv(url) == Len(url) > 0 /\ url[Len(url)] = ".csv"

HandleRequestAnyCsv(dl, url) == IF EndsWithCsv(url) THEN url ELSE dl

\* lines 53-57, handle_request: download_url = url on a URL that contains
\* "download" and ends in ".csv"
HandleRequest(dl, url) ==
    IF HasDownload(url) /\ EndsWithCsv(url) THEN url ELSE dl

\* line 58, page.on("request", handle_request): registered by the attempt
Listening == \E i \in 1..Len(h_steps) : h_steps[i] = "listen"

\* lines 53-58: the page issues a request (from the navigation on) and the
\* listener is called with it; the second attempt sees another request
HRequest ==
    /\ h_pc \in {"filters", "export", "rename"}
    /\ h_browser = "open"
    /\ Listening
    /\ \E url \in Urls, url2 \in Urls :
          /\ h_seen' = url
          /\ h_dl' = HandleRequest(h_dl, url)
          /\ h_dl2' = HandleRequest(h_dl2, url2)
    /\ UNCHANGED <<h_clock, h_files, h_s3, h_puts, h_pc, h_attempt, h_out,
                   h_existed, h_browser, h_navigated, h_consent, h_typed,
                   h_first, h_launches, h_hist, h_steps, h_moved>>

\* lines 46-58: start playwright, launch chromium, open a context and a page
HLaunch ==
    /\ h_pc = "launch"
    /\ h_steps' = h_steps \o <<"launch", "listen">>
    /\ h_seen' = NoUrl
    /\ h_dl' = NoUrl
    /\ h_dl2' = NoUrl
    /\ UNCHANGED h_moved
    /\ h_browser' = "open"
    /\ h_launches' = h_launches + 1
    /\ h_pc' = "goto"
    /\ UNCHANGED <<h_consent, h_clock, h_files, h_s3, h_puts, h_attempt, h_out,
                   h_existed, h_navigated, h_typed, h_first, h_hist>>

HLaunchFails ==
    /\ h_pc = "launch"
    /\ UNCHANGED <<h_steps, h_seen, h_dl, h_dl2, h_moved>>
    /\ AttemptFails
    /\ UNCHANGED <<h_consent, h_clock, h_files, h_s3, h_puts, h_attempt, h_out,
                   h_existed, h_navigated, h_typed, h_first, h_launches>>

\* line 60: page.goto(SEARCH_URL); the page that loads shows a cookie-consent
\* control or not
HGoto ==
    /\ h_pc = "goto"
    /\ h_steps' = h_steps \o <<"goto">>
    /\ UNCHANGED <<h_seen, h_dl, h_dl2, h_moved>>
    /\ h_navigated' = TRUE
    /\ h_pc' = "filters"
    /\ \E c \in {"absent", "present"} : h_consent' = c
    /\ UNCHANGED <<h_clock, h_files, h_s3, h_puts, h_attempt, h_out,
                   h_existed, h_browser, h_typed, h_first, h_launches, h_hist>>

HGotoFails ==
    /\ h_pc = "goto"
    /\ h_steps' = h_steps \o <<"goto">>
    /\ UNCHANGED <<h_seen, h_dl, h_dl2, h_moved>>
    /\ h_navigated' = TRUE
    /\ AttemptFails
    /\ UNCHANGED <<h_consent, h_clock, h_files, h_s3, h_puts, h_attempt, h_out,
                   h_existed, h_typed, h_first, h_launches>>

\* lines 62-68: open the advanced filters, type pendulum.yesterday() into
\* "Last updated", press Enter
HFilters ==
    /\ h_pc = "filters"
    /\ h_steps' = h_steps \o <<"panel", "date", "confirm">>
    /\ UNCHANGED <<h_seen, h_dl, h_dl2, h_moved>>
    /\ h_typed' = Day(h_clock) - 1
    /\ h_pc' = "export"
    /\ UNCHANGED <<h_consent, h_clock, h_files, h_s3, h_puts, h_attempt, h_out,
                   h_existed, h_browser, h_navigated, h_first, h_launches,
                   h_hist>>

HFiltersFail ==
    /\ h_pc = "filters"
    /\ UNCHANGED <<h_steps, h_seen, h_dl, h_dl2, h_moved>>
    /\ AttemptFails
    /\ UNCHANGED <<h_consent, h_clock, h_files, h_s3, h_puts, h_attempt, h_out,
                   h_existed, h_navigated, h_typed, h_first, h_launches>>

HExportClicksFirst ==
    /\ h_pc = "export"
    /\ h_steps' = h_steps \o <<"click", "expect", "downloaded">>
    /\ UNCHANGED <<h_seen, h_dl, h_dl2, h_moved>>
    /\ h_pc' = "rename"
    /\ UNCHANGED <<h_consent, h_clock, h_files, h_s3, h_puts, h_attempt, h_out,
                   h_existed, h_browser, h_navigated, h_typed, h_first,
                   h_launches, h_hist>>

\* lines 70-73: click "Download CSV" and wait for the download
HExport ==
    /\ h_pc = "export"
    /\ h_steps' = h_steps \o <<"expect", "click", "downloaded">>
    /\ UNCHANGED <<h_seen, h_dl, h_dl2, h_moved>>
    /\ h_pc' = "rename"
    /\ UNCHANGED <<h_consent, h_clock, h_files, h_s3, h_puts, h_attempt, h_out,
                   h_existed, h_browser, h_navigated, h_typed, h_first,
                   h_launches, h_hist>>

HExportFails ==
    /\ h_pc = "export"
    /\ UNCHANGED <<h_steps, h_seen, h_dl, h_dl2, h_moved>>
    /\ AttemptFails
    /\ UNCHANGED <<h_consent, h_clock, h_files, h_s3, h_puts, h_attempt, h_out,
                   h_existed, h_navigated, h_typed, h_first, h_launches>>

HRenameLeavesNoFile ==
    /\ h_pc = "rename"
    /\ h_steps' = h_steps \o <<"relocate">>
    /\ h_moved' = Append(h_moved,
                       [day |-> h_out, src |-> Relocated(h_dl)])
    /\ UNCHANGED <<h_seen, h_dl, h_dl2>>
    /\ h_files' = h_files
    /\ h_browser' = "closed"
    /\ h_pc' = "publish"
    /\ UNCHANGED <<h_consent,
                   h_clock, h_s3, h_puts, h_attempt, h_out, h_existed,
                   h_navigated, h_typed, h_first, h_launches, h_hist>>

\* lines 74-75: move the download to out_path, close the browser
HRename ==
    /\ h_pc = "rename"
    /\ h_steps' = h_steps \o <<"relocate">>
    /\ h_moved' = Append(h_moved,
                       [day |-> h_out, src |-> Relocated(h_dl)])
    /\ UNCHANGED <<h_seen, h_dl, h_dl2>>
    /\ h_files' = h_files \cup {h_out}
    /\ h_browser' = "closed"
    /\ h_pc' = "publish"
    /\ UNCHANGED <<h_consent,
                   h_clock, h_s3, h_puts, h_attempt, h_out, h_existed,
                   h_navigated, h_typed, h_first, h_launches, h_hist>>

HRenameFails ==
    /\ h_pc = "rename"
    /\ UNCHANGED <<h_steps, h_seen, h_dl, h_dl2, h_moved>>
    /\ AttemptFails
    /\ UNCHANGED <<h_consent, h_clock, h_files, h_s3, h_puts, h_attempt, h_out,
                   h_existed, h_navigated, h_typed, h_first, h_launches>>

\* lines 44 and 78, upload_to_s3(out_path): upload the file under its key and
\* return a presigned URL of that key, which run() returns
HPublish ==
    /\ h_pc = "publish"
    /\ UNCHANGED <<h_steps, h_seen, h_dl, h_dl2, h_moved>>
    /\ h_s3' = h_s3 \cup {S3Key(h_out)}
    /\ h_puts' = h_puts + 1
    /\ h_hist' = Append(h_hist,
                        [kind |-> "return", day |-> h_out,
                         ref |-> Url(S3Key(h_out), h_clock)])
    /\ h_pc' = "idle"
    /\ UNCHANGED <<h_consent,
                   h_clock, h_files, h_attempt, h_out, h_existed, h_browser,
                   h_navigated, h_typed, h_first, h_launches>>

\* s3.upload_file raises (no bucket, no credentials, no network)
HPublishFails ==
    /\ h_pc = "publish"
    /\ UNCHANGED <<h_steps, h_seen, h_dl, h_dl2, h_moved>>
    /\ AttemptFails
    /\ UNCHANGED <<h_consent, h_clock, h_files, h_s3, h_puts, h_attempt, h_out,
                   h_existed, h_navigated, h_typed, h_first, h_launches>>

\* lines 38-40: the wait is over, run() is entered again
HRetry ==
    /\ h_pc = "wait"
    /\ h_steps' = <<>>
    /\ UNCHANGED <<h_seen, h_dl, h_dl2, h_moved>>
    /\ h_attempt' = h_attempt + 1
    /\ h_pc' = "check"
    /\ h_browser' = "none"
    /\ h_navigated' = FALSE
    /\ h_typed' = -1
    /\ h_existed' = FALSE
    /\ h_consent' = "none"
    /\ UNCHANGED <<h_clock, h_files, h_s3, h_puts, h_out, h_first,
                   h_launches, h_hist>>

\* time passes
HTick ==
    /\ h_clock < MaxClock
    /\ UNCHANGED <<h_steps, h_seen, h_dl, h_dl2, h_moved>>
    /\ h_clock' = h_clock + 1
    /\ UNCHANGED <<h_consent,
                   h_files, h_s3, h_puts, h_pc, h_attempt, h_out, h_existed,
                   h_browser, h_navigated, h_typed, h_first, h_launches,
                   h_hist>>

\* between two calls somebody deletes an artifact (a cleaned /tmp)
HDelete ==
    /\ h_pc = "idle"
    /\ UNCHANGED <<h_steps, h_seen, h_dl, h_dl2, h_moved>>
    /\ CallsEnded < MaxCalls
    /\ \E d \in h_files :
          /\ h_files' = h_files \ {d}
          /\ h_hist' = Append(h_hist, [kind |-> "deleted", day |-> d,
                                       ref |-> NoRef])
    /\ UNCHANGED <<h_consent,
                   h_clock, h_s3, h_puts, h_pc, h_attempt, h_out, h_existed,
                   h_browser, h_navigated, h_typed, h_first, h_launches>>

----------------------------------------------------------------------------
(* ctgov.save_trials_to_db over the clinical_trials table *)

\* The Trial records a call may be given. title is Optional (0: None, else a
\* text); last_changed is Optional (0: None, else a date). The title stands
\* for the record's other written values too (status, phases, conditions,
\* countries), which travel with it.
TrialIds == {1, 2}

Trials ==
    {[id |-> i, title |-> t.title, last_changed |-> t.lc] :
        i \in TrialIds,
        t \in {[title |-> 0, lc |-> 1], [title |-> 1, lc |-> 1],
               [title |-> 2, lc |-> 0]}}

\* the arguments of a call: lists of at most MaxBatch records
Batches == UNION {[1..n -> Trials] : n \in 0..MaxBatch}

\* datetime.now() during the current call: later than every record's date,
\* and later than in every earlier call
DatetimeNow == 1 + s_calls

\* lines 203-220 and 273-279: the parameter tuple of a record, with
\* last_updated = trial.last_changed or datetime.now()
ValuesOf(trial) ==
    [nct_id |-> trial.id,
     title |-> trial.title,
     last_updated |-> IF trial.last_changed = 0 THEN DatetimeNow
                      ELSE trial.last_changed]

\* create_schema.py lines 15-17: title TEXT NOT NULL rejects a row without
\* a title
Rejected(row) == row.title = 0

\* nct_id VARCHAR(20) UNIQUE: the rows a new row conflicts with
Conflicts(rows, row) == {r \in rows : r.nct_id = row.nct_id}

UpsertAddsRow(rows, row) == rows \cup {row}

UpsertKeepsOld(rows, row) ==
    IF Conflicts(rows, row) # {} THEN rows ELSE rows \cup {row}

\* lines 225-241, INSERT ... ON CONFLICT (nct_id) DO UPDATE SET every written
\* column = EXCLUDED: the conflicting row takes the new values
Upsert(rows, row) == (rows \ Conflicts(rows, row)) \cup {row}

InsertOrOverwrite(rows, row) == (rows \ Conflicts(rows, row)) \cup {row}

\* lines 263-271, INSERT ... ON CONFLICT (nct_id) DO NOTHING
InsertOrSkip(rows, row) ==
    IF Conflicts(rows, row) # {} THEN rows ELSE rows \cup {row}

\* line 244, cur.executemany: the statement is executed for each parameter
\* tuple in turn, in one transaction
RECURSIVE ExecuteMany(_, _, _)
ExecuteMany(rows, trials, n) ==
    IF n = 0 THEN rows
    ELSE Upsert(ExecuteMany(rows, trials, n - 1), ValuesOf(trials[n]))

SIdle ==
    /\ s_db = {}
    /\ s_db0 = {}
    /\ s_tx = {}
    /\ s_calls = 0
    /\ s_trials = <<>>
    /\ s_pc = "done"
    /\ s_conn = "none"
    /\ s_opens = 0
    /\ s_live = 0
    /\ s_path = "none"
    /\ s_i = 0
    /\ s_saved = 0
    /\ s_ok = {}
    /\ s_touched = {}
    /\ s_result = [kind |-> "none", n |-> 0]

\* an empty table (create_schema just run) and no call made yet
SInit == SIdle

\* lines 188-194: a call is made; an empty list returns 0 at once
SCall ==
    /\ s_pc = "done"
    /\ s_calls < MaxSaves
    /\ \E trials \in Batches :
          /\ s_trials' = trials
          /\ s_pc' = IF trials = <<>> THEN "done" ELSE "connect"
          /\ s_result' = IF trials = <<>> THEN [kind |-> "return", n |-> 0]
                         ELSE [kind |-> "none", n |-> 0]
    /\ s_calls' = s_calls + 1
    /\ s_db0' = s_db
    /\ s_conn' = "none"
    /\ s_opens' = 0
    /\ UNCHANGED s_live
    /\ s_path' = "none"
    /\ s_i' = 0
    /\ s_saved' = 0
    /\ s_ok' = {}
    /\ s_touched' = {}
    /\ s_tx' = s_db
    /\ UNCHANGED s_db

\* lines 196-197: client.connect() opens the connection
SConnect ==
    /\ s_pc = "connect"
    /\ s_conn' = "open"
    /\ s_opens' = s_opens + 1
    /\ s_live' = s_live + 1
    /\ s_pc' = "batch"
    /\ UNCHANGED s_tx
    /\ UNCHANGED <<s_db, s_db0, s_calls, s_trials, s_path, s_i, s_saved, s_ok,
                   s_touched, s_result>>

\* lines 197-199 with db_client.py lines 17-37: connect() catches its error
\* and returns False, the call returns 0
SConnectFails ==
    /\ s_pc = "connect"
    /\ UNCHANGED <<s_opens, s_live>>
    /\ s_result' = [kind |-> "return", n |-> 0]
    /\ s_pc' = "done"
    /\ UNCHANGED s_tx
    /\ UNCHANGED <<s_db, s_db0, s_calls, s_trials, s_conn, s_path, s_i,
                   s_saved, s_ok, s_touched>>

\* lines 201-248: every tuple is accepted and the commit succeeds; the call
\* returns len(trials) through the finally clause
SBatch ==
    /\ s_pc = "batch"
    /\ UNCHANGED <<s_opens, s_live>>
    /\ \A k \in 1..Len(s_trials) : ~Rejected(ValuesOf(s_trials[k]))
    /\ s_db' = ExecuteMany(s_db, s_trials, Len(s_trials))
    /\ s_touched' = {s_trials[k].id : k \in 1..Len(s_trials)}
    /\ s_path' = "batch"
    /\ s_result' = [kind |-> "return", n |-> Len(s_trials)]
    /\ s_pc' = "close"
    /\ s_tx' = s_db'
    /\ UNCHANGED <<s_db0, s_calls, s_trials, s_conn, s_i, s_saved, s_ok>>

\* lines 244-250: executemany raises at tuple f, for a rejected row or for any
\* other reason (a lock timeout, a lost connection), or the commit raises
\* after the last tuple; the tuples before f stay in the open transaction
\* and nothing of the batch is committed
SBatchFails ==
    /\ s_pc = "batch"
    /\ UNCHANGED <<s_opens, s_live>>
    /\ \E c \in {"open", "dropped"} : s_conn' = c
    /\ s_path' = "fallback"
    /\ s_pc' = "rollback"
    /\ \E f \in 1..(Len(s_trials) + 1) :
          /\ \A k \in 1..(f - 1) : ~Rejected(ValuesOf(s_trials[k]))
          /\ s_tx' = ExecuteMany(s_db, s_trials, f - 1)
    /\ UNCHANGED <<s_db, s_db0, s_calls, s_trials, s_i, s_saved, s_ok,
                   s_touched, s_result>>

SRollbackKeepsBatch ==
    /\ s_pc = "rollback"
    /\ UNCHANGED <<s_opens, s_live>>
    /\ s_conn = "open"
    /\ s_i' = 1
    /\ s_saved' = 0
    /\ s_pc' = "fallback"
    /\ UNCHANGED <<s_db, s_db0, s_tx, s_calls, s_trials, s_conn, s_path, s_ok,
                   s_touched, s_result>>

\* lines 252-257: client.conn.rollback() on a live connection ends the
\* transaction of the batch, then the loop over trials starts with
\* saved_count = 0
SRollback ==
    /\ s_pc = "rollback"
    /\ UNCHANGED <<s_opens, s_live>>
    /\ s_conn = "open"
    /\ s_i' = 1
    /\ s_saved' = 0
    /\ s_pc' = "fallback"
    /\ s_tx' = s_db
    /\ UNCHANGED <<s_db, s_db0, s_calls, s_trials, s_conn, s_path, s_ok,
                   s_touched, s_result>>

\* line 252 on a lost connection: rollback() raises inside the except clause,
\* and the exception leaves the function through the finally clause
SRollbackRaises ==
    /\ s_pc = "rollback"
    /\ UNCHANGED <<s_opens, s_live>>
    /\ s_conn = "dropped"
    /\ s_result' = [kind |-> "raise", n |-> 0]
    /\ s_pc' = "close"
    /\ UNCHANGED s_tx
    /\ UNCHANGED <<s_db, s_db0, s_calls, s_trials, s_conn, s_path, s_i,
                   s_saved, s_ok, s_touched>>

\* lines 257-284, one turn of the loop: the statement and its commit
\* succeed, and saved_count is incremented whether a row was inserted or the
\* conflict rule skipped the record
SFallbackWrite ==
    /\ s_pc = "fallback"
    /\ UNCHANGED <<s_opens, s_live>>
    /\ s_i <= Len(s_trials)
    /\ LET row == ValuesOf(s_trials[s_i]) IN
          /\ ~Rejected(row)
          /\ s_db' = InsertOrSkip(s_db, row)
          /\ s_touched' = IF Conflicts(s_db, row) = {}
                          THEN s_touched \cup {row.nct_id} ELSE s_touched
    /\ s_saved' = s_saved + 1
    /\ s_ok' = s_ok \cup {s_i}
    /\ s_i' = s_i + 1
    /\ s_tx' = s_db'
    /\ UNCHANGED <<s_db0, s_calls, s_trials, s_pc, s_conn, s_path, s_result>>

\* lines 285-289, one turn of the loop: the statement or its commit raises
\* (a rejected row, or any other reason), the connection is alive,
\* rollback() undoes the statement and the loop goes on
SFallbackFails ==
    /\ s_pc = "fallback"
    /\ UNCHANGED <<s_opens, s_live>>
    /\ s_i <= Len(s_trials)
    /\ s_i' = s_i + 1
    /\ UNCHANGED s_tx
    /\ UNCHANGED <<s_db, s_db0, s_calls, s_trials, s_pc, s_conn, s_path,
                   s_saved, s_ok, s_touched, s_result>>

\* lines 285-288, one turn of the loop: the connection is lost, the statement
\* raises, and rollback() raises inside the except clause; the exception
\* leaves the loop and the function through the finally clause
SFallbackDrops ==
    /\ s_pc = "fallback"
    /\ UNCHANGED <<s_opens, s_live>>
    /\ s_i <= Len(s_trials)
    /\ s_conn' = "dropped"
    /\ s_result' = [kind |-> "raise", n |-> 0]
    /\ s_pc' = "close"
    /\ UNCHANGED s_tx
    /\ UNCHANGED <<s_db, s_db0, s_calls, s_trials, s_path, s_i, s_saved,
                   s_ok, s_touched>>

\* lines 291-292: the loop is over, return saved_count
SFallbackEnd ==
    /\ s_pc = "fallback"
    /\ UNCHANGED <<s_opens, s_live>>
    /\ s_i > Len(s_trials)
    /\ s_result' = [kind |-> "return", n |-> s_saved]
    /\ s_pc' = "close"
    /\ UNCHANGED s_tx
    /\ UNCHANGED <<s_db, s_db0, s_calls, s_trials, s_conn, s_path, s_i,
                   s_saved, s_ok, s_touched>>

SCloseLeavesOpen ==
    /\ s_pc = "close"
    /\ s_conn' = "closed"
    /\ UNCHANGED <<s_opens, s_live>>
    /\ s_pc' = "done"
    /\ s_tx' = s_db
    /\ UNCHANGED <<s_db, s_db0, s_calls, s_trials, s_path, s_i, s_saved,
                   s_ok, s_touched, s_result>>

\* lines 294-295 with db_client.py lines 114-118: finally client.close(),
\* then the return value or the exception reaches the caller
SClose ==
    /\ s_pc = "close"
    /\ s_conn' = "closed"
    /\ s_live' = s_live - 1
    /\ UNCHANGED s_opens
    /\ s_pc' = "done"
    /\ s_tx' = s_db
    /\ UNCHANGED <<s_db, s_db0, s_calls, s_trials, s_path, s_i, s_saved,
                   s_ok, s_touched, s_result>>

----------------------------------------------------------------------------
(* ctgov.get_trials_and_save over get_trials and save_trials_to_db *)

\* What the generator get_trials(...) does when iterated: it yields len
\* records (numbered 1..len here) and then is exhausted ("end") or raises out
\* of the for statement ("raise": a fetch that failed after its retries, a
\* payload that does not validate, a date comparison that raises)
Walks == [len : 0..MaxYield, ends : {"end", "raise"}]

OIdle ==
    /\ o_max = 0
    /\ o_bs = 1
    /\ o_src = [len |-> 0, ends |-> "end"]
    /\ o_pc = "done"
    /\ o_batch = <<>>
    /\ o_count = 0
    /\ o_total = 0
    /\ o_flushes = <<>>
    /\ o_result = [kind |-> "none", n |-> 0, caught |-> "none"]

\* lines 298-321: the arguments, and total_saved = 0, batch = [], count = 0
OInit ==
    /\ o_max \in 0..MaxTrials
    /\ o_bs \in 1..MaxBatchSize
    /\ o_src \in Walks
    /\ o_pc = "next"
    /\ o_batch = <<>>
    /\ o_count = 0
    /\ o_total = 0
    /\ o_flushes = <<>>
    /\ o_result = [kind |-> "none", n |-> 0, caught |-> "none"]

\* A call save_trials_to_db(batch, ...) made at one of the three call sites:
\* it returns a count between 0 and len(batch), or it raises (a connection
\* lost at a rollback)
Flush(site, saved, raised) ==
    [site |-> site, recs |-> o_batch, saved |-> saved, raised |-> raised]

\* lines 323-326: the for statement takes the next record from get_trials,
\* appends it to batch and counts it
OTake ==
    /\ o_pc = "next"
    /\ o_count < o_src.len
    /\ o_batch' = Append(o_batch, o_count + 1)
    /\ o_count' = o_count + 1
    /\ o_pc' = "full"
    /\ UNCHANGED <<o_max, o_bs, o_src, o_total, o_flushes, o_result>>

\* line 323: get_trials is exhausted, the for statement ends
OExhausted ==
    /\ o_pc = "next"
    /\ o_count = o_src.len
    /\ o_src.ends = "end"
    /\ o_pc' = "last"
    /\ UNCHANGED <<o_max, o_bs, o_src, o_batch, o_count, o_total, o_flushes,
                   o_result>>

\* lines 323 and 350: get_trials raises, the except clause is entered
OWalkerRaises ==
    /\ o_pc = "next"
    /\ o_count = o_src.len
    /\ o_src.ends = "raise"
    /\ o_pc' = "except"
    /\ o_result' = [o_result EXCEPT !.caught = "walker"]
    /\ UNCHANGED <<o_max, o_bs, o_src, o_batch, o_count, o_total, o_flushes>>

\* line 329: if len(batch) >= batch_size is false
ONotFull ==
    /\ o_pc = "full"
    /\ ~(Len(o_batch) >= o_bs)
    /\ o_pc' = "limit"
    /\ UNCHANGED <<o_max, o_bs, o_src, o_batch, o_count, o_total, o_flushes,
                   o_result>>

\* lines 329-333: the batch is full, the writer returns a count, the count is
\* added to total_saved and batch is emptied
OFlush ==
    /\ o_pc = "full"
    /\ Len(o_batch) >= o_bs
    /\ \E saved \in 0..Len(o_batch) :
          /\ o_total' = o_total + saved
          /\ o_flushes' = Append(o_flushes, Flush("loop", saved, FALSE))
    /\ o_batch' = <<>>
    /\ o_pc' = "limit"
    /\ UNCHANGED <<o_max, o_bs, o_src, o_count, o_result>>

\* lines 330 and 350: the batch is full and the writer raises; batch keeps
\* its records
OFlushRaises ==
    /\ o_pc = "full"
    /\ Len(o_batch) >= o_bs
    /\ o_flushes' = Append(o_flushes, Flush("loop", 0, TRUE))
    /\ o_pc' = "except"
    /\ o_result' = [o_result EXCEPT !.caught = "writer"]
    /\ UNCHANGED <<o_max, o_bs, o_src, o_batch, o_count, o_total>>

\* lines 335-337: if count >= max_trials: break
OBreak ==
    /\ o_pc = "limit"
    /\ o_count >= o_max
    /\ o_pc' = "last"
    /\ UNCHANGED <<o_max, o_bs, o_src, o_batch, o_count, o_total, o_flushes,
                   o_result>>

\* lines 335-340: the limit is not reached, the loop goes on
OContinue ==
    /\ o_pc = "limit"
    /\ ~(o_count >= o_max)
    /\ o_pc' = "next"
    /\ UNCHANGED <<o_max, o_bs, o_src, o_batch, o_count, o_total, o_flushes,
                   o_result>>

\* lines 342-348: the loop is over with records in batch; the writer returns
\* a count and the run returns total_saved
OLastFlush ==
    /\ o_pc = "last"
    /\ o_batch # <<>>
    /\ \E saved \in 0..Len(o_batch) :
          /\ o_total' = o_total + saved
          /\ o_flushes' = Append(o_flushes, Flush("last", saved, FALSE))
          /\ o_result' = [o_result EXCEPT !.kind = "return",
                                            !.n = o_total + saved]
    /\ o_pc' = "done"
    /\ UNCHANGED <<o_max, o_bs, o_src, o_batch, o_count>>

\* lines 343-344 and 350: the writer raises on the last batch
OLastFlushRaises ==
    /\ o_pc = "last"
    /\ o_batch # <<>>
    /\ o_flushes' = Append(o_flushes, Flush("last", 0, TRUE))
    /\ o_pc' = "except"
    /\ o_result' = [o_result EXCEPT !.caught = "writer"]
    /\ UNCHANGED <<o_max, o_bs, o_src, o_batch, o_count, o_total>>

\* lines 343 and 347-348: the loop is over with batch empty
OReturn ==
    /\ o_pc = "last"
    /\ o_batch = <<>>
    /\ o_result' = [o_result EXCEPT !.kind = "return", !.n = o_total]
    /\ o_pc' = "done"
    /\ UNCHANGED <<o_max, o_bs, o_src, o_batch, o_count, o_total, o_flushes>>

ORescueForgetsCount ==
    /\ o_pc = "except"
    /\ o_batch # <<>>
    /\ \E saved \in 0..Len(o_batch) :
          /\ o_total' = o_total
          /\ o_flushes' = Append(o_flushes, Flush("rescue", saved, FALSE))
          /\ o_result' = [o_result EXCEPT !.kind = "return",
                                            !.n = o_total + saved]
    /\ o_pc' = "done"
    /\ UNCHANGED <<o_max, o_bs, o_src, o_batch, o_count>>

\* lines 350-357: the except clause hands a non-empty batch to the writer,
\* adds the count and returns total_saved
ORescue ==
    /\ o_pc = "except"
    /\ o_batch # <<>>
    /\ \E saved \in 0..Len(o_batch) :
          /\ o_total' = o_total + saved
          /\ o_flushes' = Append(o_flushes, Flush("rescue", saved, FALSE))
          /\ o_result' = [o_result EXCEPT !.kind = "return",
                                            !.n = o_total + saved]
    /\ o_pc' = "done"
    /\ UNCHANGED <<o_max, o_bs, o_src, o_batch, o_count>>

\* lines 353-354: the writer raises inside the except clause, and the
\* exception leaves get_trials_and_save
ORescueRaises ==
    /\ o_pc = "except"
    /\ o_batch # <<>>
    /\ o_flushes' = Append(o_flushes, Flush("rescue", 0, TRUE))
    /\ o_result' = [o_result EXCEPT !.kind = "raise"]
    /\ o_pc' = "done"
    /\ UNCHANGED <<o_max, o_bs, o_src, o_batch, o_count, o_total>>

\* lines 353 and 357: the except clause with batch empty
ORescueNone ==
    /\ o_pc = "except"
    /\ o_batch = <<>>
    /\ o_result' = [o_result EXCEPT !.kind = "return", !.n = o_total]
    /\ o_pc' = "done"
    /\ UNCHANGED <<o_max, o_bs, o_src, o_batch, o_count, o_total, o_flushes>>

----------------------------------------------------------------------------
(* get_trials_and_save iterating the generator get_trials itself *)

\* line 323: the for statement asks the generator for its next record; the
\* generator runs only then, up to its next yield, its end or an exception
Resumed == o_pc = "next"

\* one step of the generator body
GenStep ==
    \/ WStart
    \/ WFetch
    \/ WFetchFails
    \/ WScan
    \/ WEndPage
    \/ WSleep

\* the run starts with a generator that has not run yet (line 323 creates
\* it); o_src is not used
PipeInit ==
    /\ WInit
    /\ since = DateNone
    /\ condition = "asthma"
    /\ OInit
    /\ o_src = [len |-> 0, ends |-> "end"]

\* the resumed generator goes on without reaching a yield
PRun ==
    /\ Resumed
    /\ GenStep
    /\ yielded' = yielded
    /\ w_pc' \notin {"done", "raised"}
    /\ UNCHANGED ovars

\* ctgov.py line 180 and lines 323-326: the generator yields, the record is
\* appended to batch and counted
PTake ==
    /\ Resumed
    /\ GenStep
    /\ yielded' # yielded
    /\ o_batch' = Append(o_batch, o_count + 1)
    /\ o_count' = o_count + 1
    /\ o_pc' = "full"
    /\ UNCHANGED <<o_max, o_bs, o_src, o_total, o_flushes, o_result>>

\* lines 183-184 and 323: the generator returns, the for statement ends
PExhausted ==
    /\ Resumed
    /\ GenStep
    /\ w_pc' = "done"
    /\ o_pc' = "last"
    /\ UNCHANGED <<o_max, o_bs, o_src, o_batch, o_count, o_total, o_flushes,
                   o_result>>

\* lines 323 and 350: an exception leaves the generator and the for
\* statement, the except clause is entered
PWalkerRaises ==
    /\ Resumed
    /\ GenStep
    /\ w_pc' = "raised"
    /\ o_pc' = "except"
    /\ o_result' = [o_result EXCEPT !.caught = "walker"]
    /\ UNCHANGED <<o_max, o_bs, o_src, o_batch, o_count, o_total, o_flushes>>

----------------------------------------------------------------------------
(* The record parsers: ctgov Trial.from_api and the three ctis generators *)

\* a key that the raw entry does not have, and an attribute that the record
\* class does not have
Missing == "<missing>"

NoField == "<no field>"

\* The raw entries tried. id is the native identifier (nctId, trialId,
\* eudract_number): missing, empty or a text. valid, design, phases and lcd
\* are as in Payload; conditions and locations are the optional modules
\* conditionsModule and contactsLocationsModule (has: the module is there;
\* a location's country may be None, written "").
RawEntries ==
    [nctId : {Missing, "", "ID1"},
     valid : BOOLEAN,
     design : BOOLEAN,
     phases : {<<>>, <<S("Phase 2")>>},
     lcd : {DateNone, DateText, DateIso(1, ""), DateIso(1, "Z")},
     conditions : {[has |-> FALSE, list |-> <<>>],
                   [has |-> TRUE, list |-> <<"myeloma">>]},
     locations : {[has |-> FALSE, list |-> <<>>],
                  [has |-> TRUE, list |-> <<"PL", "", "PL">>]}]

\* A raw entry as a source can send it: the required sections are there only
\* when the identifier is, and phases are there only inside designModule
WellFormed(raw) ==
    /\ raw.valid => raw.nctId # Missing
    /\ ~raw.design => raw.phases = <<>>

\* lines 100-106 and 109-110 of ctgov.py: the countries of the locations
\* that have one, without duplicates; the conditions of the module
CountriesOf(raw) ==
    IF raw.locations.has
    THEN {raw.locations.list[k] : k \in 1..Len(raw.locations.list)} \ {""}
    ELSE {}

ConditionsOf(raw) ==
    IF raw.conditions.has THEN raw.conditions.list ELSE <<>>

\* what a parser gives for an entry
NoRecord == [id |-> Missing, source |-> NoField, phases |-> <<>>,
             conditions |-> <<>>, countries |-> {}, last_changed |-> NoDt]

Raised == [kind |-> "raise", rec |-> NoRecord]

Parsed(rec) == [kind |-> "record", rec |-> rec]

\* ctgov.py lines 173 and 97-122: ApiStudy.model_validate, then
\* Trial.from_api; the Trial class has no source attribute
ParseCtgov(raw) ==
    IF ~Validates(raw) THEN Raised
    ELSE LET t == FromApi(raw) IN
         Parsed([id |-> t.id, source |-> NoField, phases |-> t.phases,
                 conditions |-> ConditionsOf(raw),
                 countries |-> CountriesOf(raw),
                 last_changed |-> t.last_changed])

\* ctis.py lines 34-41 and 169-181 (get_trials), 88-98 (get_trials_mock):
\* CtisApiStudy.model_validate needs trialId and trialStatus, then a
\* UnifiedStudy is made with a constant source
ParseCtis(raw, tag) ==
    IF ~raw.valid THEN Raised
    ELSE Parsed([NoRecord EXCEPT !.id = raw.nctId, !.source = tag])

\* ctis.py lines 125-132: id = study.get("eudract_number", "")
ParseEuRegister(raw) ==
    Parsed([NoRecord EXCEPT
               !.id = IF raw.nctId = Missing THEN "" ELSE raw.nctId,
               !.source = "EU Clinical Trials Register"])

\* ctis.py lines 54-72, _create_mock_trial_data: three complete entries
MockData ==
    {[nctId |-> id, valid |-> TRUE, design |-> FALSE, phases |-> <<>>,
      lcd |-> DateNone, conditions |-> [has |-> FALSE, list |-> <<>>],
      locations |-> [has |-> FALSE, list |-> <<>>]] :
        id \in {"EU-2023-001234", "EU-2023-005678", "EU-2022-009876"}}

PIdle ==
    /\ p_raw = CHOOSE raw \in MockData : TRUE
    /\ p_pc = "done"
    /\ p_out = [by |-> "none", kind |-> "none", rec |-> NoRecord]

\* an entry of a source, not yet parsed
PInit ==
    /\ p_raw \in {raw \in RawEntries : WellFormed(raw)} \cup MockData
    /\ p_pc = "ready"
    /\ p_out = [by |-> "none", kind |-> "none", rec |-> NoRecord]

Gives(by, out) ==
    /\ p_pc = "ready"
    /\ p_pc' = "done"
    /\ p_out' = [by |-> by, kind |-> out.kind, rec |-> out.rec]
    /\ UNCHANGED p_raw

\* ctgov.get_trials parses the entry
PCtgov == p_raw \notin MockData /\ Gives("ctgov", ParseCtgov(p_raw))

\* ctis.get_trials parses the entry
PCtis == p_raw \notin MockData /\ Gives("ctis", ParseCtis(p_raw, "EU CTIS"))

\* ctis.get_trials_mock parses an entry of the mock data
PMock == p_raw \in MockData /\ Gives("mock", ParseCtis(p_raw, "EU CTIS (MOCK)"))

\* ctis.get_trials_from_eu_register parses the entry
PEuRegister ==
    p_raw \notin MockData /\ Gives("eu_register", ParseEuRegister(p_raw))

----------------------------------------------------------------------------
(* lambda_handler.lambda_handler over ctis_harvester.run *)

LIdle ==
    /\ l_pc = "idle"
    /\ l_runs = 0
    /\ l_resp = <<>>

LInit == LIdle

\* the harvester calls that have ended, in order
EndedCalls == SelectSeq(h_hist, LAMBDA e : e.kind \in {"return", "raise"})

\* lines 12-28: an invocation starts and calls asyncio.run(run())
LInvoke ==
    /\ l_pc = "idle"
    /\ HCall
    /\ l_pc' = "running"
    /\ l_runs' = 1
    /\ UNCHANGED l_resp

LRespondAlways200 ==
    /\ l_pc = "running"
    /\ h_pc = "idle"
    /\ LET call == EndedCalls[Len(EndedCalls)] IN
          l_resp' = Append(l_resp, [statusCode |-> 200,
                                    presigned_url |-> call.ref,
                                    error |-> ""])
    /\ l_pc' = "idle"
    /\ UNCHANGED <<l_runs, hvars>>

\* lines 28-56: run() has returned and the response carries statusCode 200
\* and the value returned as presigned_url; or run() has raised, the except
\* clause catches the exception and the response carries statusCode 500 and
\* str(e)
LRespond ==
    /\ l_pc = "running"
    /\ h_pc = "idle"
    /\ LET call == EndedCalls[Len(EndedCalls)] IN
          l_resp' = Append(l_resp,
                           IF call.kind = "return"
                           THEN [statusCode |-> 200,
                                 presigned_url |-> call.ref,
                                 error |-> ""]
                           ELSE [statusCode |-> 500,
                                 presigned_url |-> NoRef,
                                 error |-> "RetryError"])
    /\ l_pc' = "idle"
    /\ UNCHANGED <<l_runs, hvars>>

----------------------------------------------------------------------------
(* Specifications *)

vars == <<wvars, fvars, hvars, svars, ovars, pvars, lvars>>

\* an idle fetcher, for the specifications of the other components
FIdle ==
    /\ f_site = "ctgov"
    /\ f_pc = "returned"
    /\ f_attempt = 1
    /\ f_outcomes = <<>>
    /\ f_waits = <<>>
    /\ f_result = [kind |-> "none", value |-> ""]

\* an idle walker
WIdle ==
    /\ source = <<>>
    /\ condition = ""
    /\ page_size = 0
    /\ params = {}
    /\ sent = <<>>
    /\ phase = PyNone
    /\ since = DateNone
    /\ dt_since = NoDt
    /\ w_pc = "done"
    /\ w_data = 0
    /\ w_idx = 0
    /\ page_token = NoToken
    /\ requests = <<>>
    /\ yielded = <<>>
    /\ dropped = {}
    /\ events = <<>>
    /\ w_error = ""

\* an idle harvester
HIdle ==
    /\ h_clock = TicksPerDay
    /\ h_files = {}
    /\ h_s3 = {}
    /\ h_puts = 0
    /\ h_pc = "idle"
    /\ h_attempt = 0
    /\ h_out = 0
    /\ h_existed = FALSE
    /\ h_browser = "none"
    /\ h_navigated = FALSE
    /\ h_consent = "none"
    /\ h_typed = -1
    /\ h_first = HFresh
    /\ h_launches = 0
    /\ h_hist = <<>>
    /\ h_steps = <<>>
    /\ h_seen = NoUrl
    /\ h_dl = NoUrl
    /\ h_dl2 = NoUrl
    /\ h_moved = <<>>

WalkInit == WInit /\ FIdle /\ HIdle /\ SIdle /\ OIdle /\ PIdle /\ LIdle

WalkNext ==
    \/ WStart /\ UNCHANGED <<fvars, hvars, svars, ovars, pvars, lvars>>
    \/ WFetch /\ UNCHANGED <<fvars, hvars, svars, ovars, pvars, lvars>>
    \/ WFetchFails /\ UNCHANGED <<fvars, hvars, svars, ovars, pvars, lvars>>
    \/ WScan /\ UNCHANGED <<fvars, hvars, svars, ovars, pvars, lvars>>
    \/ WEndPage /\ UNCHANGED <<fvars, hvars, svars, ovars, pvars, lvars>>
    \/ WSleep /\ UNCHANGED <<fvars, hvars, svars, ovars, pvars, lvars>>

SpecWalk == WalkInit /\ [][WalkNext]_vars

FetchInit == FInit /\ WIdle /\ HIdle /\ SIdle /\ OIdle /\ PIdle /\ LIdle

FetchNext ==
    \/ FAttemptOk /\ UNCHANGED <<wvars, hvars, svars, ovars, pvars, lvars>>
    \/ FAttemptFails /\ UNCHANGED <<wvars, hvars, svars, ovars, pvars, lvars>>
    \/ FRetry /\ UNCHANGED <<wvars, hvars, svars, ovars, pvars, lvars>>

SpecFetch == FetchInit /\ [][FetchNext]_vars

HarvestInit == HInit /\ WIdle /\ FIdle /\ SIdle /\ OIdle /\ PIdle /\ LIdle

HarvestNext ==
    \/ HCall /\ UNCHANGED <<wvars, fvars, svars, ovars, pvars, lvars>>
    \/ HCheck /\ UNCHANGED <<wvars, fvars, svars, ovars, pvars, lvars>>
    \/ HLaunch /\ UNCHANGED <<wvars, fvars, svars, ovars, pvars, lvars>>
    \/ HLaunchFails /\ UNCHANGED <<wvars, fvars, svars, ovars, pvars, lvars>>
    \/ HGoto /\ UNCHANGED <<wvars, fvars, svars, ovars, pvars, lvars>>
    \/ HGotoFails /\ UNCHANGED <<wvars, fvars, svars, ovars, pvars, lvars>>
    \/ HFilters /\ UNCHANGED <<wvars, fvars, svars, ovars, pvars, lvars>>
    \/ HFiltersFail /\ UNCHANGED <<wvars, fvars, svars, ovars, pvars, lvars>>
    \/ HExport /\ UNCHANGED <<wvars, fvars, svars, ovars, pvars, lvars>>
    \/ HExportFails /\ UNCHANGED <<wvars, fvars, svars, ovars, pvars, lvars>>
    \/ HRename /\ UNCHANGED <<wvars, fvars, svars, ovars, pvars, lvars>>
    \/ HRenameFails /\ UNCHANGED <<wvars, fvars, svars, ovars, pvars, lvars>>
    \/ HPublish /\ UNCHANGED <<wvars, fvars, svars, ovars, pvars, lvars>>
    \/ HPublishFails /\ UNCHANGED <<wvars, fvars, svars, ovars, pvars, lvars>>
    \/ HRetry /\ UNCHANGED <<wvars, fvars, svars, ovars, pvars, lvars>>
    \/ HTick /\ UNCHANGED <<wvars, fvars, svars, ovars, pvars, lvars>>
    \/ HDelete /\ UNCHANGED <<wvars, fvars, svars, ovars, pvars, lvars>>

SpecHarvest == HarvestInit /\ [][HarvestNext]_vars

\* the harvester with the requests its listener sees, the clock standing
ListenInit == HarvestInit

ListenNext ==
    \/ HCall /\ UNCHANGED <<wvars, fvars, svars, ovars, pvars, lvars>>
    \/ HCheck /\ UNCHANGED <<wvars, fvars, svars, ovars, pvars, lvars>>
    \/ HLaunch /\ UNCHANGED <<wvars, fvars, svars, ovars, pvars, lvars>>
    \/ HLaunchFails /\ UNCHANGED <<wvars, fvars, svars, ovars, pvars, lvars>>
    \/ HGoto /\ UNCHANGED <<wvars, fvars, svars, ovars, pvars, lvars>>
    \/ HGotoFails /\ UNCHANGED <<wvars, fvars, svars, ovars, pvars, lvars>>
    \/ HFilters /\ UNCHANGED <<wvars, fvars, svars, ovars, pvars, lvars>>
    \/ HFiltersFail /\ UNCHANGED <<wvars, fvars, svars, ovars, pvars, lvars>>
    \/ HExport /\ UNCHANGED <<wvars, fvars, svars, ovars, pvars, lvars>>
    \/ HExportFails /\ UNCHANGED <<wvars, fvars, svars, ovars, pvars, lvars>>
    \/ HRename /\ UNCHANGED <<wvars, fvars, svars, ovars, pvars, lvars>>
    \/ HRenameFails /\ UNCHANGED <<wvars, fvars, svars, ovars, pvars, lvars>>
    \/ HPublish /\ UNCHANGED <<wvars, fvars, svars, ovars, pvars, lvars>>
    \/ HPublishFails /\ UNCHANGED <<wvars, fvars, svars, ovars, pvars, lvars>>
    \/ HRetry /\ UNCHANGED <<wvars, fvars, svars, ovars, pvars, lvars>>
    \/ HRequest /\ UNCHANGED <<wvars, fvars, svars, ovars, pvars, lvars>>

SpecListen == ListenInit /\ [][ListenNext]_vars

SaveInit == SInit /\ WIdle /\ FIdle /\ HIdle /\ OIdle /\ PIdle /\ LIdle

SaveNext ==
    \/ SCall /\ UNCHANGED <<wvars, fvars, hvars, ovars, pvars, lvars>>
    \/ SConnect /\ UNCHANGED <<wvars, fvars, hvars, ovars, pvars, lvars>>
    \/ SConnectFails /\ UNCHANGED <<wvars, fvars, hvars, ovars, pvars, lvars>>
    \/ SBatch /\ UNCHANGED <<wvars, fvars, hvars, ovars, pvars, lvars>>
    \/ SBatchFails /\ UNCHANGED <<wvars, fvars, hvars, ovars, pvars, lvars>>
    \/ SRollback /\ UNCHANGED <<wvars, fvars, hvars, ovars, pvars, lvars>>
    \/ SRollbackRaises /\ UNCHANGED <<wvars, fvars, hvars, ovars, pvars, lvars>>
    \/ SFallbackWrite /\ UNCHANGED <<wvars, fvars, hvars, ovars, pvars, lvars>>
    \/ SFallbackFails /\ UNCHANGED <<wvars, fvars, hvars, ovars, pvars, lvars>>
    \/ SFallbackDrops /\ UNCHANGED <<wvars, fvars, hvars, ovars, pvars, lvars>>
    \/ SFallbackEnd /\ UNCHANGED <<wvars, fvars, hvars, ovars, pvars, lvars>>
    \/ SClose /\ UNCHANGED <<wvars, fvars, hvars, ovars, pvars, lvars>>

SpecSave == SaveInit /\ [][SaveNext]_vars

RunInit == OInit /\ WIdle /\ FIdle /\ HIdle /\ SIdle /\ PIdle /\ LIdle

RunNext ==
    \/ OTake /\ UNCHANGED <<wvars, fvars, hvars, svars, pvars, lvars>>
    \/ OExhausted /\ UNCHANGED <<wvars, fvars, hvars, svars, pvars, lvars>>
    \/ OWalkerRaises /\ UNCHANGED <<wvars, fvars, hvars, svars, pvars, lvars>>
    \/ ONotFull /\ UNCHANGED <<wvars, fvars, hvars, svars, pvars, lvars>>
    \/ OFlush /\ UNCHANGED <<wvars, fvars, hvars, svars, pvars, lvars>>
    \/ OFlushRaises /\ UNCHANGED <<wvars, fvars, hvars, svars, pvars, lvars>>
    \/ OBreak /\ UNCHANGED <<wvars, fvars, hvars, svars, pvars, lvars>>
    \/ OContinue /\ UNCHANGED <<wvars, fvars, hvars, svars, pvars, lvars>>
    \/ OLastFlush /\ UNCHANGED <<wvars, fvars, hvars, svars, pvars, lvars>>
    \/ OLastFlushRaises /\ UNCHANGED <<wvars, fvars, hvars, svars, pvars,
                                     lvars>>
    \/ OReturn /\ UNCHANGED <<wvars, fvars, hvars, svars, pvars, lvars>>
    \/ ORescue /\ UNCHANGED <<wvars, fvars, hvars, svars, pvars, lvars>>
    \/ ORescueRaises /\ UNCHANGED <<wvars, fvars, hvars, svars, pvars, lvars>>
    \/ ORescueNone /\ UNCHANGED <<wvars, fvars, hvars, svars, pvars, lvars>>

SpecRun == RunInit /\ [][RunNext]_vars

PipeSpecInit == PipeInit /\ FIdle /\ HIdle /\ SIdle /\ PIdle /\ LIdle

PipeNext ==
    \/ PRun /\ UNCHANGED <<fvars, hvars, svars, pvars, lvars>>
    \/ PTake /\ UNCHANGED <<fvars, hvars, svars, pvars, lvars>>
    \/ PExhausted /\ UNCHANGED <<fvars, hvars, svars, pvars, lvars>>
    \/ PWalkerRaises /\ UNCHANGED <<fvars, hvars, svars, pvars, lvars>>
    \/ ONotFull /\ UNCHANGED <<wvars, fvars, hvars, svars, pvars, lvars>>
    \/ OFlush /\ UNCHANGED <<wvars, fvars, hvars, svars, pvars, lvars>>
    \/ OFlushRaises /\ UNCHANGED <<wvars, fvars, hvars, svars, pvars, lvars>>
    \/ OBreak /\ UNCHANGED <<wvars, fvars, hvars, svars, pvars, lvars>>
    \/ OContinue /\ UNCHANGED <<wvars, fvars, hvars, svars, pvars, lvars>>
    \/ OLastFlush /\ UNCHANGED <<wvars, fvars, hvars, svars, pvars, lvars>>
    \/ OLastFlushRaises /\ UNCHANGED <<wvars, fvars, hvars, svars, pvars,
                                     lvars>>
    \/ OReturn /\ UNCHANGED <<wvars, fvars, hvars, svars, pvars, lvars>>
    \/ ORescue /\ UNCHANGED <<wvars, fvars, hvars, svars, pvars, lvars>>
    \/ ORescueRaises /\ UNCHANGED <<wvars, fvars, hvars, svars, pvars, lvars>>
    \/ ORescueNone /\ UNCHANGED <<wvars, fvars, hvars, svars, pvars, lvars>>

SpecPipe == PipeSpecInit /\ [][PipeNext]_vars

ParseInit ==
    PInit /\ WIdle /\ FIdle /\ HIdle /\ SIdle /\ OIdle /\ LIdle

ParseNext ==
    \/ PCtgov /\ UNCHANGED <<wvars, fvars, hvars, svars, ovars, lvars>>
    \/ PCtis /\ UNCHANGED <<wvars, fvars, hvars, svars, ovars, lvars>>
    \/ PMock /\ UNCHANGED <<wvars, fvars, hvars, svars, ovars, lvars>>
    \/ PEuRegister /\ UNCHANGED <<wvars, fvars, hvars, svars, ovars, lvars>>

SpecParse == ParseInit /\ [][ParseNext]_vars

LambdaInit ==
    LInit /\ HInit /\ WIdle /\ FIdle /\ SIdle /\ OIdle /\ PIdle

LambdaNext ==
    \/ LInvoke /\ UNCHANGED <<wvars, fvars, svars, ovars, pvars>>
    \/ HCheck /\ UNCHANGED <<lvars, wvars, fvars, svars, ovars, pvars>>
    \/ HLaunch /\ UNCHANGED <<lvars, wvars, fvars, svars, ovars, pvars>>
    \/ HLaunchFails /\ UNCHANGED <<lvars, wvars, fvars, svars, ovars, pvars>>
    \/ HGoto /\ UNCHANGED <<lvars, wvars, fvars, svars, ovars, pvars>>
    \/ HGotoFails /\ UNCHANGED <<lvars, wvars, fvars, svars, ovars, pvars>>
    \/ HFilters /\ UNCHANGED <<lvars, wvars, fvars, svars, ovars, pvars>>
    \/ HFiltersFail /\ UNCHANGED <<lvars, wvars, fvars, svars, ovars, pvars>>
    \/ HExport /\ UNCHANGED <<lvars, wvars, fvars, svars, ovars, pvars>>
    \/ HExportFails /\ UNCHANGED <<lvars, wvars, fvars, svars, ovars, pvars>>
    \/ HRename /\ UNCHANGED <<lvars, wvars, fvars, svars, ovars, pvars>>
    \/ HRenameFails /\ UNCHANGED <<lvars, wvars, fvars, svars, ovars, pvars>>
    \/ HPublish /\ UNCHANGED <<lvars, wvars, fvars, svars, ovars, pvars>>
    \/ HPublishFails /\ UNCHANGED <<lvars, wvars, fvars, svars, ovars, pvars>>
    \/ HRetry /\ UNCHANGED <<lvars, wvars, fvars, svars, ovars, pvars>>
    \/ HTick /\ UNCHANGED <<lvars, wvars, fvars, svars, ovars, pvars>>
    \/ HDelete /\ l_pc = "idle" /\ UNCHANGED <<lvars, wvars, fvars, svars,
                                                ovars, pvars>>
    \/ LRespond /\ UNCHANGED <<wvars, fvars, svars, ovars, pvars>>

SpecLambda == LambdaInit /\ [][LambdaNext]_vars

----------------------------------------------------------------------------
(* Properties of ctgov.get_trials *)

\* A token that is no cursor: the field is missing, or empty
Cursorless(tok) == tok \in {NoToken, ""}

\* The first response of the source without a next-page cursor
FirstCursorless ==
    CHOOSE i \in 1..Len(source) :
        /\ Cursorless(source[i].token)
        /\ \A j \in 1..(i - 1) : ~Cursorless(source[j].token)

RECURSIVE PayloadsUpTo(_)
\* The study payloads of pages 1..n, in page order and payload order
PayloadsUpTo(n) ==
    IF n = 0 THEN <<>> ELSE PayloadsUpTo(n - 1) \o source[n].studies

\* The payloads the generator has finished with: the pages before the
\* current one and the studies of the current one before w_idx
ProcessedPayloads ==
    IF w_data = 0 THEN <<>>
    ELSE PayloadsUpTo(w_data - 1) \o SubSeq(Studies, 1, w_idx - 1)

ProcessedPos ==
    {pos \in (1..Len(source)) \X (1..MaxPerPage) :
        /\ pos[2] <= Len(source[pos[1]].studies)
        /\ \/ pos[1] < w_data
           \/ pos[1] = w_data /\ pos[2] < w_idx}

\* The study on which the generator raised, if it raised on one
RaisedPos ==
    IF w_pc = "raised" /\ w_error \in {"TypeError", "ValidationError"}
    THEN {<<w_data, w_idx>>} ELSE {}

YieldedPos == {yielded[k].pos : k \in 1..Len(yielded)}

YieldedRaw == [k \in 1..Len(yielded) |-> yielded[k].trial.raw]

PayloadAt(pos) == source[pos[1]].studies[pos[2]]

NoFilters == ~Truthy(phase) /\ since.kind \in {"none", "empty"}

\* Steps left to the generator: the pages still to request times the longest
\* a page can take, plus what is left of the current page.
PageSpan == MaxPerPage + 4

Rank ==
    LET left == PageSpan * (FirstCursorless - Len(requests))
    IN  CASE w_pc = "start" -> left + 2
          [] w_pc = "fetch" -> left + 1
          [] w_pc = "sleep" -> left + 2
          [] w_pc = "scan"  -> left + 3 + (Len(Studies) + 1 - w_idx)
          [] OTHER          -> 0

\* C1: consumed against a source whose page sequence has a response without
\* a cursor, get_trials terminates: every step brings it closer to its end
\* (Rank falls and stays >= 0), no request is issued after the first response
\* whose nextPageToken is missing or empty, and it ends normally exactly
\* after the last study of that page.
C1_StopsAtFirstCursorless ==
    /\ [][Rank' < Rank]_vars
    /\ [](/\ Rank >= 0
          /\ Len(requests) <= FirstCursorless
          /\ w_pc = "done" =>
                /\ Len(requests) = FirstCursorless
                /\ w_data = FirstCursorless
                /\ w_idx = Len(source[FirstCursorless].studies) + 1)

\* reached: a walk that ended on an empty-string cursor with pages behind it
C1_Witness ==
    /\ w_pc = "done"
    /\ FirstCursorless < Len(source)
    /\ source[FirstCursorless].token = ""
    /\ Len(yielded) > 0

\* C2: without filters the trials yielded so far are exactly the payloads
\* processed so far, one each, in page order and payload order; at the end
\* they are all the payloads of all the pages up to the cursorless one; the
\* two-page source (2 + cursor, 1 + no cursor) gives 3 trials.
ScenarioA ==
    /\ Len(source) = 2
    /\ Len(source[1].studies) = 2 /\ ~Cursorless(source[1].token)
    /\ Len(source[2].studies) = 1 /\ source[2].token = NoToken

C2_AllInSourceOrder ==
    NoFilters =>
        /\ YieldedRaw = ProcessedPayloads
        /\ \A k \in 1..Len(yielded) :
              yielded[k].trial.id = yielded[k].trial.raw.nctId
        /\ w_pc = "done" => YieldedRaw = PayloadsUpTo(FirstCursorless)
        /\ (w_pc = "done" /\ ScenarioA) => Len(yielded) = 3

C2_Witness ==
    /\ w_pc = "done" /\ phase = PyNone /\ since = DateNone
    /\ ScenarioA
    /\ Len(yielded) = 3
    /\ yielded[1].pos = <<1, 1>> /\ yielded[3].pos = <<2, 1>>

\* C3 (as claimed): with phase = "2", over the three records with the phase
\* lists ["Phase 1"], ["Phase 2", "Phase 3"] and [], the walk yields only
\* the second record.
ScenarioB ==
    /\ phase = PySome(S("2"))
    /\ since = DateNone
    /\ PayloadsUpTo(FirstCursorless) = SubSeq(Catalogue, 1, 3)

C3_YieldsOnlySecond ==
    (w_pc = "done" /\ ScenarioB) =>
        /\ Len(yielded) = 1
        /\ yielded[1].trial.raw = Catalogue[2]

\* C4: whatever the cutoff, a processed record whose date is missing or does
\* not parse, and that the phase filter lets through, has been yielded.
C4_AbsentDateNeverDropped ==
    \A pos \in ProcessedPos :
        LET raw == PayloadAt(pos)
        IN  (raw.lcd.kind # "iso" /\ ~PhaseRejects(phase, FromApi(raw)))
                => pos \in YieldedPos

\* reached: under a cutoff, a trial with an unparseable date was yielded
C4_Witness ==
    /\ dt_since.some
    /\ \E k \in 1..Len(yielded) :
          /\ yielded[k].trial.raw.lcd.kind = "text"
          /\ ~yielded[k].trial.last_changed.some
    /\ \E k \in 1..Len(yielded) : yielded[k].trial.raw.lcd.kind = "none"

\* C5 (as claimed): under a cutoff, of the records the generator took up that
\* pass the phase filter and carry a date, those strictly earlier than the
\* cutoff are dropped, the others are yielded.
C5_DropsExactlyEarlier ==
    dt_since.some =>
        \A pos \in ProcessedPos \cup RaisedPos :
            LET raw == PayloadAt(pos)
            IN  (/\ raw.valid
                 /\ raw.lcd.kind = "iso"
                 /\ ~PhaseRejects(phase, FromApi(raw)))
                    => IF raw.lcd.day < dt_since.day
                       THEN /\ [pos |-> pos, by |-> "since"] \in dropped
                            /\ pos \notin YieldedPos
                       ELSE pos \in YieldedPos

\* C6: a sleep comes only straight after a request whose response carried a
\* cursor and is followed by nothing but the next request; a walk that ended
\* after k requests slept k - 1 times and did not sleep after its last page.
Count(seq, x) == Cardinality({k \in 1..Len(seq) : seq[k] = x})

C6_SleepOnlyBetweenFetches ==
    /\ \A k \in 1..Len(events) :
          events[k] = "sleep" =>
              /\ k > 1 /\ events[k - 1] = "get"
              /\ ~Cursorless(source[Count(SubSeq(events, 1, k), "get")].token)
              /\ k < Len(events) => events[k + 1] = "get"
    /\ w_pc = "done" =>
          /\ Count(events, "get") = Len(requests)
          /\ Count(events, "sleep") = Len(requests) - 1
          /\ events[Len(events)] = "get"

C6_Witness ==
    /\ w_pc = "done"
    /\ Len(requests) = 2
    /\ events = <<"get", "sleep", "get">>

\* the values a request carries under a key
Carried(k, key) == {kv[2] : kv \in {x \in sent[k] : x[1] = key}}

\* C32: every page request carries the call's condition, its page size and
\* the field projection, and no parameter besides these, the format and the
\* cursor (never a phase or date filter); the first request carries no
\* cursor and each later one exactly the cursor of the response before it.
C32_RequestParams ==
    \A k \in 1..Len(sent) :
        /\ Carried(k, "query.cond") = {condition}
        /\ Carried(k, "pageSize") = {ToString(page_size)}
        /\ Carried(k, "fields") = {Fields}
        /\ {kv[1] : kv \in sent[k]} \subseteq
              {"query.cond", "pageSize", "fields", "format", "pageToken"}
        /\ k = 1 => Carried(k, "pageToken") = {}
        /\ k > 1 => /\ Carried(k, "pageToken") = {Response(k - 1).token}
                    /\ ~Cursorless(Response(k - 1).token)

\* reached: a call given a phase and a since has issued its second request
C32_Witness ==
    /\ Len(sent) = 2
    /\ Truthy(phase)
    /\ dt_since # NoDt
    /\ <<"pageToken", Cursor(1)>> \in sent[2]

----------------------------------------------------------------------------
(* Properties of the retrying fetchers *)

OkAt(k) == f_outcomes[k].kind = "ok"

\* C7: a fetcher call makes at most 5 (ctgov._get) or 3 (ctis._fetch_page)
\* attempts; it returns at the first attempt that succeeds, with that
\* attempt's body; and when every attempt has failed the caller gets an
\* error, never a value.
C7_BoundedAttemptsErrorSurfaces ==
    /\ Len(f_outcomes) <= (IF f_site = "ctgov" THEN 5 ELSE 3)
    /\ f_attempt <= (IF f_site = "ctgov" THEN 5 ELSE 3)
    /\ \A k \in 1..Len(f_outcomes) :
          OkAt(k) => /\ k = Len(f_outcomes)
                     /\ f_pc = "returned"
                     /\ f_result = [kind |-> "return",
                                    value |-> f_outcomes[k].body]
    /\ f_result.kind = "return" =>
          /\ Len(f_outcomes) > 0
          /\ OkAt(Len(f_outcomes))
    /\ (/\ f_pc \notin {"call", "wait"}
        /\ \A k \in 1..Len(f_outcomes) : ~OkAt(k))
          => f_pc = "raised" /\ f_result.kind = "raise"

\* reached: a call that returned the body of its third attempt
C7_Witness ==
    /\ f_site = "ctgov"
    /\ f_pc = "returned"
    /\ Len(f_outcomes) = 3
    /\ f_result = [kind |-> "return", value |-> "body2"]

\* reached too: a ctis call that raised after its last attempt
C7_WitnessExhausted ==
    /\ f_site = "ctis" /\ f_pc = "raised" /\ Len(f_outcomes) = 3

\* C8 (as claimed): a 4xx status met by ctgov._get is not retried: it is the
\* only attempt of the call and the caller has the error at once.
C8_PermanentNotRetried ==
    f_site = "ctgov" =>
        \A k \in 1..Len(f_outcomes) :
            f_outcomes[k].kind = "http4xx" =>
                /\ k = 1 /\ Len(f_outcomes) = 1
                /\ f_pc = "raised"

\* C8 (amended): ctgov._get retries a 4xx status like any other failure:
\* after a 4xx on an attempt before the 5th it sleeps and attempts again, and
\* the caller gets the error (tenacity's RetryError) only after the 5th
\* attempt has failed.
C8_PermanentRetriedLikeAny ==
    f_site = "ctgov" =>
        /\ \A k \in 1..Len(f_outcomes) :
              (f_outcomes[k].kind = "http4xx" /\ k < 5) =>
                  \/ k < Len(f_outcomes)
                  \/ /\ k = Len(f_outcomes)
                     /\ Len(f_waits) = k
                     /\ \/ f_pc = "wait" /\ f_attempt = k
                        \/ f_pc = "call" /\ f_attempt = k + 1
        /\ f_pc = "raised" =>
              /\ Len(f_outcomes) = 5
              /\ f_result = [kind |-> "raise", value |-> "RetryError"]

\* reached: five attempts, each answered 4xx, then the error
C8_Witness ==
    /\ f_site = "ctgov"
    /\ f_pc = "raised"
    /\ Len(f_outcomes) = 5
    /\ \A k \in 1..5 : f_outcomes[k].kind = "http4xx"

\* the floor and the ceiling of a decorator's wait: ctgov.py line 128,
\* ctis_harvester.py line 38
WaitFloor(site) == IF site = "ctgov" THEN 2 ELSE 4

WaitCeiling(site) == IF site = "ctgov" THEN 10 ELSE 30

\* C31: the waits of ctgov._get and of the harvester double from the floor up
\* to the ceiling: the first wait is the floor (2 s, 4 s), each later wait is
\* twice the one before it, capped at the ceiling (10 s, 30 s); every wait
\* lies within [floor, ceiling]; the harvester's floor is the higher one.
C31_WaitsDoubleFromFloor ==
    f_site \in {"ctgov", "harvester"} =>
        /\ \A k \in 1..Len(f_waits) :
              /\ f_waits[k] >= WaitFloor(f_site)
              /\ f_waits[k] <= WaitCeiling(f_site)
              /\ k = 1 => f_waits[k] = WaitFloor(f_site)
              /\ k > 1 => f_waits[k] = Min(2 * f_waits[k - 1],
                                           WaitCeiling(f_site))
        /\ WaitFloor("harvester") > WaitFloor("ctgov")

----------------------------------------------------------------------------
(* Properties of ctis_harvester.run *)

\* C9: an attempt that found the artifact of its target date in place
\* launches no browser and navigates nowhere; and a call that found it in
\* place at its first attempt has launched no browser for as long as its
\* target date is that of the first attempt.
C9_ExistingArtifactNoBrowser ==
    /\ h_existed => /\ h_browser = "none"
                    /\ ~h_navigated
                    /\ h_pc \in {"publish", "wait", "idle"}
    /\ (h_first.existed /\ h_out = h_first.out) => h_launches = 0

\* reached: a call that found the artifact and returned without a browser
C9_Witness ==
    /\ h_pc = "idle"
    /\ h_existed
    /\ h_attempt = 1
    /\ h_launches = 0
    /\ h_hist # <<>>
    /\ h_hist[Len(h_hist)].kind = "return"

\* Two calls that returned one straight after the other (no call and no
\* deletion between them), for the same target date
SuccessiveReturns(k) ==
    /\ k \in 1..(Len(h_hist) - 1)
    /\ h_hist[k].kind = "return"
    /\ h_hist[k + 1].kind = "return"
    /\ h_hist[k].day = h_hist[k + 1].day

IsRerun ==
    /\ h_existed
    /\ \E k \in 1..Len(h_hist) :
          h_hist[k].kind = "return" /\ h_hist[k].day = h_out

\* C11: a re-run for an already-harvested date does no new work: no step of
\* it launches a browser, writes a file or uploads to the bucket.
C11_RerunNoNewWork ==
    [][(IsRerun /\ h_pc # "idle")
          => /\ h_puts' = h_puts
             /\ h_s3' = h_s3
             /\ h_files' = h_files
             /\ h_launches' = h_launches]_vars

C12_WitnessNormal ==
    h_pc = "publish" /\ h_browser = "closed"

\* the calls that have ended by raising
Raises == {k \in 1..Len(h_hist) : h_hist[k].kind = "raise"}

CallEnds(kind) ==
    /\ Len(h_hist') = Len(h_hist) + 1
    /\ h_hist'[Len(h_hist')].kind = kind

C15_ConsentDismissedBeforeFilters ==
    h_pc \in {"export", "rename"} => h_consent \in {"absent", "dismissed"}

----------------------------------------------------------------------------
(* Properties of ctgov.save_trials_to_db *)

\* the rows of the table that carry an identifier
RowsOf(rows, id) == {r \in rows : r.nct_id = id}

\* the call has ended by returning on the given path
Returned(path) ==
    /\ s_pc = "done"
    /\ s_path = path
    /\ s_result.kind = "return"

\* C16: at every moment of every sequence of calls, on both paths, the table
\* holds at most one row per trial identifier.
C16_OneRowPerId ==
    \A id \in TrialIds : Cardinality(RowsOf(s_db, id)) <= 1

\* reached: a first call stored a record, the second call was given the same
\* identifier twice, went down the fallback path and returned, and the table
\* holds one row of that identifier
C16_Witness ==
    /\ s_calls = 2
    /\ Returned("fallback")
    /\ Len(s_trials) = 2
    /\ s_trials[1].id = s_trials[2].id
    /\ s_ok = {1, 2}
    /\ RowsOf(s_db0, s_trials[1].id) # {}
    /\ Cardinality(RowsOf(s_db, s_trials[1].id)) = 1

\* reached: a batch with one identifier twice, stored on the batch path
C16_WitnessBatch ==
    /\ Returned("batch")
    /\ Len(s_trials) = 2
    /\ s_trials[1].id = s_trials[2].id
    /\ s_trials[1] # s_trials[2]
    /\ Cardinality(RowsOf(s_db, s_trials[1].id)) = 1

\* the last record of the argument that carries an identifier
LastWith(id) ==
    s_trials[CHOOSE k \in 1..Len(s_trials) :
                /\ s_trials[k].id = id
                /\ \A j \in (k + 1)..Len(s_trials) : s_trials[j].id # id]

\* C17: after a call that succeeded on the batch path, every identifier of
\* the batch has one row, whose written values are those of the last record
\* of the batch with that identifier (its title; its last_changed, or the
\* time of the call when it has none), whatever the table held before.
C17_BatchLastWriteWins ==
    Returned("batch") =>
        \A k \in 1..Len(s_trials) :
            LET last == LastWith(s_trials[k].id) IN
            \E r \in s_db :
                /\ RowsOf(s_db, last.id) = {r}
                /\ r.title = last.title
                /\ last.last_changed # 0 => r.last_updated = last.last_changed
                /\ last.last_changed = 0 => r.last_updated = 1 + s_calls

\* reached: the table held a row of an identifier, and a batch that carries
\* the identifier twice, with different values, has replaced it by the
\* values of the second record
C17_Witness ==
    /\ Returned("batch")
    /\ Len(s_trials) = 2
    /\ s_trials[1].id = s_trials[2].id
    /\ s_trials[1].title # s_trials[2].title
    /\ \E old \in RowsOf(s_db0, s_trials[1].id) :
          /\ old.title # s_trials[2].title
          /\ old \notin s_db
    /\ \E r \in s_db : r.title = s_trials[2].title

\* the call's batch statement failed and its fallback loop was entered
FallbackRan == s_path = "fallback" /\ s_i >= 1

\* C18: a call whose batch statement failed and whose fallback succeeded for
\* N of its records returns N, and every row the call has left in the table
\* is the row of a record whose own write succeeded.
C18_FallbackReturnsN ==
    (s_pc = "done" /\ FallbackRan) =>
        /\ s_result = [kind |-> "return", n |-> Cardinality(s_ok)]
        /\ \A r \in s_db \ s_db0 :
              \E k \in s_ok :
                 /\ r.nct_id = s_trials[k].id
                 /\ r.title = s_trials[k].title

\* C19: the value a call returns is the number of rows the call inserted or
\* overwrote in the table.
C19_ReturnsRowsWritten ==
    (s_pc = "done" /\ s_result.kind = "return") =>
        s_result.n = Cardinality(s_touched)

\* C20: no call ends by raising to its caller, whatever failed; and a call
\* that had no connection, or whose every write failed, returns 0.
C20_NeverRaises ==
    (s_pc = "done" /\ s_calls > 0) =>
        /\ s_result.kind = "return"
        /\ (s_conn = "none" \/ (s_path = "fallback" /\ s_ok = {}))
              => s_result.n = 0

\* C21: when the first per-record write of the fallback is about to be
\* issued, the table is as it was before the call, both as committed and as
\* the connection sees it: no row of the failed batch is left.
C21_RolledBackBeforeFallback ==
    (s_pc = "fallback" /\ s_i = 1) => (s_tx = s_db0 /\ s_db = s_db0)

\* reached: the fallback is about to start for a batch whose first record is
\* new to the table and accepted and whose second record is rejected, so that
\* the batch statement had written a row before it failed
C21_Witness ==
    /\ s_pc = "fallback" /\ s_i = 1
    /\ Len(s_trials) = 2
    /\ s_trials[1].title # 0
    /\ s_trials[2].title = 0
    /\ RowsOf(s_db0, s_trials[1].id) = {}
    /\ s_tx = s_db0

\* the fallback loop is at a record whose identifier has a row in the table
AtStoredId ==
    /\ s_pc = "fallback"
    /\ s_i <= Len(s_trials)
    /\ RowsOf(s_db, s_trials[s_i].id) # {}

\* C22: a turn of the fallback loop at a record whose identifier already has
\* a row leaves that row as it is, in the table and in the transaction, also
\* when the turn's statement succeeds (the record is skipped, and the skip
\* raises nothing: the turn ends like a write).
C22_FallbackSkipsStoredId ==
    [][AtStoredId =>
          /\ RowsOf(s_db', s_trials[s_i].id) = RowsOf(s_db, s_trials[s_i].id)
          /\ RowsOf(s_tx', s_trials[s_i].id) = RowsOf(s_db, s_trials[s_i].id)
          /\ s_i \in s_ok' => (s_db' = s_db /\ s_pc' = "fallback"
                               /\ s_result' = s_result)]_vars

\* reached: the fallback met a record whose identifier was stored with other
\* values, its statement succeeded, and the stored row is as it was
C22_Witness ==
    /\ Returned("fallback")
    /\ Len(s_trials) = 1
    /\ s_ok = {1}
    /\ s_db = s_db0
    /\ \E r \in RowsOf(s_db, s_trials[1].id) : r.title # s_trials[1].title

\* C23: a call whose fallback loop was entered ends only after every record
\* of the batch has had its turn, in batch order (the loop's position moves
\* by one record at a time and has passed the last record at the end).
C23_EveryRecordAttempted ==
    /\ []((s_pc = "done" /\ FallbackRan) => s_i = Len(s_trials) + 1)
    /\ [][(s_pc = "fallback" /\ s_pc' = "fallback")
             => s_i' \in {s_i, s_i + 1}]_vars

----------------------------------------------------------------------------
(* Properties of ctgov.get_trials_and_save *)

\* the records handed to the writer so far
Handed ==
    UNION {{o_flushes[k].recs[j] : j \in 1..Len(o_flushes[k].recs)} :
              k \in 1..Len(o_flushes)}

\* C24: for every max_trials >= 0 and batch_size >= 1, the records taken from
\* the walker, and the records handed to the writer, are never more than
\* max_trials.
C24_NeverMoreThanMax ==
    /\ o_count <= o_max
    /\ Cardinality(Handed) <= o_max

\* C25: every call of the writer carries at most batch_size records; every
\* call but the last of the run carries exactly batch_size records; and the
\* buffer holds fewer than batch_size records whenever the next record is
\* requested from the walker.
C25_FlushSizes ==
    /\ \A k \in 1..Len(o_flushes) :
          /\ Len(o_flushes[k].recs) \in 1..o_bs
          /\ k < Len(o_flushes) => Len(o_flushes[k].recs) = o_bs
    /\ o_pc = "next" => Len(o_batch) < o_bs

\* the counts the writer returned, added up over the first n calls
RECURSIVE SumSaved(_)
SumSaved(n) ==
    IF n = 0 THEN 0 ELSE SumSaved(n - 1) + o_flushes[n].saved

\* C26: a run whose walker raised has, when it ends, handed every record it
\* took to the writer, and ends by returning the sum of the counts of all
\* its flushes, the one of the except clause included.
C26_WalkerFailureFlushed ==
    (o_pc = "done" /\ o_result.caught = "walker") =>
        /\ Handed = 1..o_count
        /\ o_result.kind = "return"
        /\ o_result.n = SumSaved(Len(o_flushes))

\* the calls of the writer that carried record r
HandedIn(r) ==
    {k \in 1..Len(o_flushes) :
        \E j \in 1..Len(o_flushes[k].recs) : o_flushes[k].recs[j] = r}

\* C39: every record taken from the walker is handed to the writer exactly
\* once: never twice at any moment, and once by the end of the run, whether
\* the run ended at the limit, with a partial batch, or after the walker or a
\* writer call raised.
C39_HandedExactlyOnce ==
    /\ \A r \in 1..o_count : Cardinality(HandedIn(r)) <= 1
    /\ o_pc = "done" => \A r \in 1..o_count : Cardinality(HandedIn(r)) = 1

\* as long as no writer call has raised, no record is handed twice and a run
\* that has ended has handed over every record
C39_OnceWhileWriterReturns ==
    (\A k \in 1..Len(o_flushes) : ~o_flushes[k].raised) =>
        /\ \A r \in 1..o_count : Cardinality(HandedIn(r)) <= 1
        /\ o_pc = "done" => \A r \in 1..o_count : Cardinality(HandedIn(r)) = 1

----------------------------------------------------------------------------
(* Properties of the record parsers *)

\* the positions of the study payloads of the pages up to the first one
\* without a cursor
WalkPos ==
    {pos \in (1..FirstCursorless) \X (1..MaxPerPage) :
        pos[2] <= Len(source[pos[1]].studies)}

\* C27: a payload that lacks a required section is dropped alone: the walk
\* does not end on it, and a walk without filters that has ended has yielded
\* every payload of its pages that has its required sections.
C27_InvalidPayloadDroppedAlone ==
    /\ w_error # "ValidationError"
    /\ (/\ w_pc \in {"done", "raised"}
        /\ NoFilters
        /\ w_error \in {"", "ValidationError"})
          => \A pos \in WalkPos :
                Validates(PayloadAt(pos)) => pos \in YieldedPos

\* C28: every record a parser gives has an id that is not empty and a source
\* tag that is not empty.
C28_IdAndSourceNonEmpty ==
    p_out.kind = "record" =>
        /\ p_out.rec.id \notin {"", Missing}
        /\ p_out.rec.source \notin {"", NoField}

\* the last-changed string of the entry is there and is no ISO date
Unparseable(lcd) == lcd.kind = "text"

\* C29: a payload that has its required sections is parsed into a record by
\* Trial.from_api; a missing designModule, conditionsModule or
\* contactsLocationsModule gives an empty phases, conditions or countries;
\* a last-changed string that is no date gives an absent last_changed.
C29_OptionalModulesDefault ==
    (p_out.by = "ctgov" /\ p_raw.valid) =>
        /\ p_out.kind = "record"
        /\ ~p_raw.design => p_out.rec.phases = <<>>
        /\ ~p_raw.conditions.has => p_out.rec.conditions = <<>>
        /\ ~p_raw.locations.has => p_out.rec.countries = {}
        /\ Unparseable(p_raw.lcd) => p_out.rec.last_changed = NoDt

\* reached: a payload without any optional module and with a last-changed
\* text that is no date was parsed into a record
C29_Witness ==
    /\ p_out.by = "ctgov"
    /\ p_out.kind = "record"
    /\ p_raw.valid
    /\ ~p_raw.design /\ ~p_raw.conditions.has /\ ~p_raw.locations.has
    /\ Unparseable(p_raw.lcd)
    /\ p_out.rec.last_changed = NoDt


\* C30: lambda_handler runs the harvester once per invocation and never
\* raises: every invocation ends with a response, the response has statusCode
\* 200 and carries the reference the harvester returned exactly when the
\* harvester returned, and has statusCode 500 and carries the error text
\* exactly when the harvester raised.
C30_ResponseMatchesHarvester ==
    /\ l_runs <= 1
    /\ Len(l_resp) = Len(EndedCalls) - (IF l_pc = "running" /\ h_pc = "idle"
                                        THEN 1 ELSE 0)
    /\ \A k \in 1..Len(l_resp) :
          /\ l_resp[k].statusCode \in {200, 500}
          /\ l_resp[k].statusCode = 200 <=> EndedCalls[k].kind = "return"
          /\ l_resp[k].statusCode = 500 <=> EndedCalls[k].kind = "raise"
          /\ l_resp[k].statusCode = 200 =>
                l_resp[k].presigned_url = EndedCalls[k].ref
          /\ l_resp[k].statusCode = 500 => l_resp[k].error # ""

\* a state where one invocation answered 200 and another answered 500
C30_Witness ==
    /\ \E k \in 1..Len(l_resp) :
          l_resp[k].statusCode = 200 /\ l_resp[k].presigned_url # NoRef
    /\ \E k \in 1..Len(l_resp) : l_resp[k].statusCode = 500

\* C34: a save_trials_to_db call opens at most one connection and has closed
\* it when the call ends, on every exit path; over the calls a run makes one
\* after the other at most one connection is open at any time and none once
\* a call has ended; a call with an empty list opens none and returns 0.
C34_OneConnectionClosedAtEnd ==
    /\ s_opens <= 1
    /\ s_live <= 1
    /\ s_pc = "done" => s_live = 0
    /\ (s_pc = "done" /\ s_calls > 0 /\ s_trials = <<>>) =>
          /\ s_opens = 0
          /\ s_result = [kind |-> "return", n |-> 0]

\* reached: a second call that opened a connection has ended with an
\* exception, after a first call that ended in its fallback
C34_Witness ==
    /\ s_calls = 2
    /\ s_pc = "done"
    /\ s_opens = 1
    /\ s_result.kind = "raise"
    /\ s_live = 0

\* reached too: a call with an empty list has ended
C34_WitnessEmpty ==
    /\ s_calls = 1
    /\ s_pc = "done"
    /\ s_trials = <<>>
    /\ s_result = [kind |-> "return", n |-> 0]

\* the steps of an attempt in the order claimed, and the two registrations
StepOrder ==
    <<"check", "launch", "goto", "panel", "date", "confirm", "click",
      "downloaded", "relocate">>

StepAt(name) == {i \in 1..Len(h_steps) : h_steps[i] = name}

\* step a was taken, once, and before step b when b was taken
Precedes(a, b) ==
    StepAt(b) # {} =>
        /\ Cardinality(StepAt(a)) = 1
        /\ \A i \in StepAt(a), j \in StepAt(b) : i < j

\* C36: in an attempt the steps occur in the order idempotency check, browser
\* launch, navigation, filter panel, date entry, confirm, export click,
\* download complete, relocation, each at most once and none without the one
\* before it; the request listener is registered before the navigation and
\* the download wait before the export click.
C36_StepsInOrder ==
    /\ \A k \in 1..(Len(StepOrder) - 1) :
          Precedes(StepOrder[k], StepOrder[k + 1])
    /\ Cardinality(StepAt("relocate")) <= 1
    /\ Precedes("listen", "goto")
    /\ Precedes("expect", "click")
    /\ Precedes("expect", "downloaded")

\* reached: the second attempt of a call has taken every step
C36_Witness ==
    /\ h_attempt = 2
    /\ Len(h_steps) = 11
    /\ StepAt("relocate") = {11}

\* C37: in every attempt the day typed into the "Last updated" filter is the
\* day that names the artifact path, whenever the attempt starts and whatever
\* the clock does between the path computation and the filter step.
C37_TypedDayIsPathDay ==
    h_typed # -1 => h_typed = h_out

\* with the clock standing within one day from the path computation to the
\* filter step, the two days agree
C37_SameDayAgrees ==
    [][(h_pc = "filters" /\ h_typed' # -1 /\ TodayPath(h_clock) = h_out)
          => h_typed' = h_out]_vars

\* the attempt is past its check of out_path
PastCheck == h_pc \notin {"idle", "check", "wait"}

\* C38: within one call, over all its attempts, at most one download is moved
\* to the artifact path of a day; and an attempt of the call that follows a
\* relocation and has the same target day finds the artifact, launches no
\* browser and goes straight to publishing it.
C38_OneRelocationPerCall ==
    /\ \A i, j \in 1..Len(h_moved) :
          h_moved[i].day = h_moved[j].day => i = j
    /\ (/\ PastCheck
        /\ \E i \in 1..Len(h_moved) : h_moved[i].day = h_out
        /\ h_steps # <<>>
        /\ h_steps[Len(h_steps)] # "relocate")
          => /\ h_existed
             /\ h_browser = "none"
             /\ h_steps = <<"check">>
             /\ h_pc = "publish"

\* reached: the upload failed after the relocation, and the next attempt of
\* the call, on the same day, is about to publish the file it found
C38_Witness ==
    /\ h_attempt = 2
    /\ h_pc = "publish"
    /\ Len(h_moved) = 1
    /\ h_moved[1].day = h_out
    /\ h_steps = <<"check">>
    /\ h_launches = 1

----------------------------------------------------------------------------
(* Properties of the harvester's request listener *)

\* a URL that contains "download" and ends in ".csv"
IsCsvDownload(url) ==
    /\ \E i \in 1..Len(url) : url[i] = "download"
    /\ Len(url) > 0
    /\ url[Len(url)] = ".csv"

\* the listener is called in this step
ListenerCalled ==
    /\ h_seen' # NoUrl
    /\ UNCHANGED <<h_pc, h_steps>>
    /\ h_seen' # h_seen \/ h_dl' # h_dl

\* a file is moved to out_path in this step
Relocates == Len(h_moved') > Len(h_moved)

\* C35: the listener records the URL of a request exactly when the URL
\* contains "download" and ends in ".csv"; and what it recorded decides
\* nothing: the file moved to the artifact path is the one the attempt would
\* move had its listener seen other requests, and every call ends with a
\* reference made of the artifact's day alone or with an exception.
C35_ListenerNotAuthoritative ==
    /\ [](/\ h_dl # NoUrl => IsCsvDownload(h_dl)
          /\ \A k \in 1..Len(h_hist) :
                h_hist[k].kind = "return" =>
                    h_hist[k].ref.name = S3Key(h_hist[k].day))
    /\ [][/\ ListenerCalled =>
                h_dl' = IF IsCsvDownload(h_seen') THEN h_seen' ELSE h_dl
          /\ Relocates =>
                h_moved'[Len(h_moved')].src = Relocated(h_dl2)]_vars

\* reached: a call has returned after an attempt whose listener recorded a
\* URL, while the listener of the second attempt recorded none
C35_Witness ==
    /\ h_pc = "idle"
    /\ h_dl # NoUrl
    /\ h_dl2 = NoUrl
    /\ h_seen # h_dl
    /\ Len(h_moved) = 1
    /\ h_hist # <<>>
    /\ h_hist[Len(h_hist)].kind = "return"

----------------------------------------------------------------------------
(* Properties of get_trials_and_save over the generator *)

\* a page request is issued in this step
Requests == Len(requests') > Len(requests)

\* C33: the walker is consumed lazily: a page request is issued only when
\* every record of the pages before it has been processed and every record
\* yielded so far has been taken, and no page request is issued once
\* max_trials records have been taken.
C33_LazyAndStopsAtMax ==
    [][Requests =>
          /\ w_data = 0 \/ w_idx > Len(Studies)
          /\ Len(yielded) = o_count
          /\ ~(o_count >= o_max)]_vars

\* with max_trials >= 1 the run issues requests lazily and none after the
\* limit
C33_LazyFromOne ==
    [][(Requests /\ o_max >= 1) =>
          /\ w_data = 0 \/ w_idx > Len(Studies)
          /\ Len(yielded) = o_count
          /\ ~(o_count >= o_max)]_vars

====
